---- MODULE Spec2Model ----
(***************************************************************************)
(* API-definition lifecycle tracker of the Document360 UI automation       *)
(* suite: ApiHelper (static tracking globals, per-instance reentrancy      *)
(* flag, idempotent bulk-delete cleanup) and ApiCreationObserver (the      *)
(* per-instance tracked list); the test hooks that reset and run the       *)
(* cleanup around every test; and the OpenAPI specification parser         *)
(* (ApiSpecParserFactory, ApiSpecParser, the format parsers) with the      *)
(* test-data extraction built on its accessors.                            *)
(*                                                                         *)
(* Each component's actions constrain that component's variables; the     *)
(* next-state relation of a specification frames the variables of the     *)
(* components it does not run.                                             *)
(*                                                                         *)
(* Scheduling is the JavaScript event loop: synchronous code runs to      *)
(* completion, every `await` of a network call suspends the invocation    *)
(* until the answer arrives in a later task, and a continuation that is   *)
(* already resolved (a microtask) runs before any further network event.  *)
(***************************************************************************)
EXTENDS Integers, Sequences, FiniteSets, TLC

\* ------------------------------------------------------------------ bounds
MaxCalls  == 2      \* deleteTrackedApiDefinitions() invocations
MaxTracks == 2      \* tracking events (observed or manual)

Helpers == {"h1", "h2"}            \* ApiHelper instances
Trackers == {"h1"}                 \* instances used during the test body; the others are
                                   \* created by teardown hooks only to run the cleanup
Ids     == {"a", "b"}              \* apiDefinitionId values
Pvs     == {"v1", "v2"}            \* projectDocumentVersionId values
Tokens  == {"t1"}                  \* bearer tokens
Calls   == 1..MaxCalls
Outcomes == {"ok", "nonok", "raise"}   \* answer of one HTTP request

VARIABLES
  trackedApiDefinitions,          \* ApiCreationObserver list, per helper
  cleanupInProgress,              \* ApiHelper instance flag, per helper
  globalApiDefinitionIds,         \* ApiHelper static
  globalProjectDocumentVersionId, \* ApiHelper static
  globalAuthToken,                \* ApiHelper static
  cleanupCompleted,               \* ApiHelper static
  capturedAuthToken,              \* globalThis.__capturedAuthToken
  isListening,                    \* ApiResponseObserver flag, per helper
  waiting,                        \* temp observer of waitForApiCreationResponse registered, per helper
  pc,                             \* position of each cleanup invocation
  helper,                         \* instance the invocation runs on
  path,                           \* "none" | "observer" | "legacy"
  definitions,                    \* snapshot taken by getTrackedDefinitions()
  idx,                            \* loop position over uniqueApiIds
  existingApis,                   \* local list built by the existence loop
  postOutcome,                    \* answer of the bulk-delete POST: "none" | "ok" | "nonok" | "raise"
  result,                         \* local `result`: "none" | "true" | "false" | "threw"
  ret,                            \* settled value: "none" | "true" | "false" | "threw"
  request,                        \* bulk-delete request sent by the running invocation (<< >> when none)
  sent,                           \* bulk-delete requests sent so far, per invocation
  gets,                           \* existence GETs answered in the running loop, per invocation
  lastTracked,                    \* per helper: id -> pv of latest tracking since last clear
  nTracks,                        \* tracking events so far
  alone,                          \* per invocation: it started while no other was suspended,
                                  \* and resetCleanupState() has not been called since
  after                           \* per invocation: the `alone` invocations settled at its start

vars == << trackedApiDefinitions, cleanupInProgress, globalApiDefinitionIds,
           globalProjectDocumentVersionId, globalAuthToken, cleanupCompleted,
           capturedAuthToken, isListening, waiting, pc, helper, path,
           definitions, idx, existingApis, postOutcome, result, ret,
           request, sent, gets, lastTracked, nTracks, alone, after >>

trackVars  == << trackedApiDefinitions, globalApiDefinitionIds,
                 globalProjectDocumentVersionId, globalAuthToken >>
callLocals == << definitions, idx, existingApis, postOutcome, result >>
histVars   == << alone, after >>

VARIABLES
  phase,                          \* test runner: "free" | "beforeEach" | "body" | "afterEach" | "end"
  formatParsers,                  \* ApiSpecParserFactory.formatParsers (static registry)
  parser,                         \* ApiSpecParser instances: their fields, NoParser before construction
  files,                          \* file system: path -> content ("ENOENT" when there is none)
  call,                           \* the latest parser call and what it did
  returned                        \* per parser instance: what parseApiSpec() last returned

runVars    == << phase >>
parserVars == << formatParsers, parser, files, call, returned >>

VARIABLES
  observers,                      \* ApiResponseObserver.observers of the observed helper
  listeners,                      \* handler pairs registered on the page by startListening()
  promise,                        \* per waitForApiCreationResponse() call: "none" | "pending" | "null" | the id it resolved with
  timer,                          \* per call: its setTimeout is armed
  inflight,                       \* the arriving response and the handleResponse invocations still to notify
  registered,                     \* observers list when the latest notifyObservers began
  notified,                       \* observers whose onApiResponse that notifyObservers invoked, in order
  delivered,                      \* per observer: onApiResponse invocations for the arriving response
  nResponses                      \* responses arrived so far

observerVars == << observers, listeners, promise, timer, inflight, registered,
                   notified, delivered, nResponses >>

VARIABLES
  retries                         \* per batch item: the retry() invocation made for it

retryVars  == << retries >>

VARIABLES
  seeder                          \* the ApiDataSeeder of one test, its server and its calls

seederVars == << seeder >>
utilVars   == << observerVars, retryVars, seederVars >>
allVars    == << vars, runVars, parserVars, utilVars >>

\* --------------------------------------------------------------- helpers
Range(s) == { s[i] : i \in 1..Len(s) }

IdsOf(list) == [ i \in 1..Len(list) |-> list[i].apiDefinitionId ]

\* Array.prototype.findIndex on apiDefinitionId; 0 stands for -1
FindIndex(list, id) ==
  IF \E i \in 1..Len(list) : list[i].apiDefinitionId = id
  THEN CHOOSE i \in 1..Len(list) :
         /\ list[i].apiDefinitionId = id
         /\ \A j \in 1..(i-1) : list[j].apiDefinitionId # id
  ELSE 0

\* [...new Set(allApiIds)] : first occurrences, in insertion order
RECURSIVE Dedupe(_)
Dedupe(s) ==
  IF s = << >> THEN << >>
  ELSE LET front == Dedupe(SubSeq(s, 1, Len(s) - 1))
           last  == s[Len(s)]
       IN  IF last \in Range(front) THEN front ELSE Append(front, last)

Definition(id, pv, tok) ==
  [ apiDefinitionId |-> id, projectDocumentVersionId |-> pv, authToken |-> tok ]

NoTracking == [ i \in Ids |-> "" ]

\* ------------------------------------------------- ApiCreationObserver
ManualTrackDup(list, def) == Append(list, def)

\* manualTrack / onApiResponse: overwrite the entry with the same id, else push
ManualTrack(list, def) ==
  LET existingIndex == FindIndex(list, def.apiDefinitionId)
  IN  IF existingIndex > 0
      THEN [ list EXCEPT ![existingIndex] = def ]
      ELSE Append(list, def)

\* ----------------------------------------------------------- ApiHelper
\* static trackApiDefinition: the id list after the call
TrackApiDefinition(ids, id) ==
  IF id \in Range(ids) THEN ids ELSE Append(ids, id)

\* --------------------------------------------------------------- Init
Init ==
  /\ trackedApiDefinitions = [ h \in Helpers |-> << >> ]
  /\ cleanupInProgress = [ h \in Helpers |-> FALSE ]
  /\ globalApiDefinitionIds = << >>
  /\ globalProjectDocumentVersionId = ""
  /\ globalAuthToken = ""
  /\ cleanupCompleted = FALSE
  /\ capturedAuthToken = ""
  /\ isListening = [ h \in Helpers |-> FALSE ]
  /\ waiting = [ h \in Helpers |-> FALSE ]
  /\ pc = [ c \in Calls |-> "idle" ]
  /\ helper = [ c \in Calls |-> "h1" ]
  /\ path = [ c \in Calls |-> "none" ]
  /\ definitions = [ c \in Calls |-> << >> ]
  /\ idx = [ c \in Calls |-> 0 ]
  /\ existingApis = [ c \in Calls |-> << >> ]
  /\ postOutcome = [ c \in Calls |-> "none" ]
  /\ result = [ c \in Calls |-> "none" ]
  /\ ret = [ c \in Calls |-> "none" ]
  /\ request = [ c \in Calls |-> << >> ]
  /\ sent = [ c \in Calls |-> 0 ]
  /\ gets = [ c \in Calls |-> << >> ]
  /\ lastTracked = [ h \in Helpers |-> NoTracking ]
  /\ nTracks = 0
  /\ alone = [ c \in Calls |-> FALSE ]
  /\ after = [ c \in Calls |-> {} ]

\* ------------------------------------------------------------ scheduling
\* invocations past their guards and not yet settled
Suspended == { c \in Calls : pc[c] \in {"checkApiExists", "post", "text", "ret0", "ret"} }

\* a resolved continuation is queued: it runs before any network event
MicrotaskPending == \E c \in Calls : pc[c] \in {"ret0", "ret"}

\* synchronous caller code can run: no continuation woken by a network
\* answer is queued ("ret0" is queued by the caller's own synchronous call)
SyncEnabled == \A c \in Calls : pc[c] # "ret"

IOEnabled == ~MicrotaskPending

\* ------------------------------------------------------------- tracking
\* trackApiDefinitionManually(apiDefinitionId, projectDocumentVersionId, authToken?)
\* tok = "" stands for an omitted (or empty) authToken argument
TrackApiDefinitionManually(h, id, pv, tok) ==
  /\ SyncEnabled
  /\ nTracks < MaxTracks
  /\ nTracks' = nTracks + 1
  /\ globalApiDefinitionIds' = TrackApiDefinition(globalApiDefinitionIds, id)
  /\ globalProjectDocumentVersionId' = pv
  /\ globalAuthToken' = IF tok # "" THEN tok ELSE globalAuthToken
  /\ trackedApiDefinitions' =
       [ trackedApiDefinitions EXCEPT ![h] =
           ManualTrack(@, Definition(id, pv, globalAuthToken')) ]
  /\ lastTracked' = [ lastTracked EXCEPT ![h][id] = pv ]
  /\ UNCHANGED << cleanupInProgress, cleanupCompleted, capturedAuthToken,
                  isListening, waiting, pc, helper, path, callLocals, ret,
                  request, sent, gets, histVars >>

\* waitForApiCreationResponse(): start listening, register the temp observer
WaitForApiCreationResponse(h) ==
  /\ SyncEnabled
  /\ ~waiting[h]
  /\ isListening' = [ isListening EXCEPT ![h] = TRUE ]
  /\ waiting' = [ waiting EXCEPT ![h] = TRUE ]
  /\ UNCHANGED << trackVars, cleanupInProgress, cleanupCompleted,
                  capturedAuthToken, pc, helper, path, callLocals, ret,
                  request, sent, gets, lastTracked, nTracks, histVars >>

\* handleRequest: an outgoing API request with `Authorization: Bearer tok`
HandleRequest(h, tok) ==
  /\ IOEnabled
  /\ isListening[h]
  /\ capturedAuthToken # tok
  /\ capturedAuthToken' = tok
  /\ UNCHANGED << trackVars, cleanupInProgress, cleanupCompleted, isListening,
                  waiting, pc, helper, path, callLocals, ret, request, sent,
                  gets, lastTracked, nTracks, histVars >>

\* handleResponse + notifyObservers for a successful creation response
\* {success, result: {apiDefinitionId: id, projectDocumentVersionId: pv}}:
\* first the ApiCreationObserver, then the temp observer when registered
HandleResponse(h, id, pv) ==
  /\ IOEnabled
  /\ isListening[h]
  /\ nTracks < MaxTracks
  /\ nTracks' = nTracks + 1
  /\ trackedApiDefinitions' =
       [ trackedApiDefinitions EXCEPT ![h] =
           ManualTrack(@, Definition(id, pv, capturedAuthToken)) ]
  /\ lastTracked' = [ lastTracked EXCEPT ![h][id] = pv ]
  /\ IF waiting[h]
     THEN /\ globalApiDefinitionIds' = TrackApiDefinition(globalApiDefinitionIds, id)
          /\ globalProjectDocumentVersionId' = pv
          /\ globalAuthToken' = IF capturedAuthToken # "" THEN capturedAuthToken
                                                         ELSE globalAuthToken
          /\ waiting' = [ waiting EXCEPT ![h] = FALSE ]
     ELSE UNCHANGED << globalApiDefinitionIds, globalProjectDocumentVersionId,
                       globalAuthToken, waiting >>
  /\ UNCHANGED << cleanupInProgress, cleanupCompleted, capturedAuthToken,
                  isListening, pc, helper, path, callLocals, ret, request, sent,
                  gets, histVars >>

\* static resetCleanupState(); a call that finds the flag already false
\* changes nothing and is a stuttering step
ResetCleanupState ==
  /\ SyncEnabled
  /\ cleanupCompleted
  /\ cleanupCompleted' = FALSE
  /\ alone' = [ c \in Calls |-> FALSE ]
  /\ UNCHANGED << trackVars, cleanupInProgress, capturedAuthToken, isListening,
                  waiting, pc, helper, path, callLocals, ret, request, sent,
                  gets, lastTracked, nTracks, after >>

\* ------------------------------------------- deleteTrackedApiDefinitions
\* the two guards in front of the try block
AlreadyHandledOnlyCompleted(inProgress, completed) == completed

AlreadyHandledNoCompleted(inProgress, completed) == inProgress

AlreadyHandled(inProgress, completed) == inProgress \/ completed

\* instance flag after a guarded early return (the return sits before `try`,
\* so the `finally` does not run)
FlagAfterGuardCleared(flag) == FALSE

FlagAfterGuard(flag) == flag

\* checkApiExists: response.ok(), and false when the request raises
CheckApiExistsOptimistic(outcome) == outcome # "nonok"

CheckApiExists(outcome) == outcome = "ok"

\* the existence loop body
ExistingAfter(existing, apiId, exists) ==
  IF exists THEN Append(existing, apiId) ELSE existing

\* `if (existingApis.length === 0) return true`
NothingToDeleteNever(existing) == FALSE

NothingToDelete(existing) == Len(existing) = 0

\* projectDocumentVersionId sent by the observer path: definitions[0]
DeleteVersionId(defs) == defs[1].projectDocumentVersionId

\* catch blocks of deleteDefinitionsUsingObserver / deleteLegacyTrackedDefinitions
RequestErrorResultUncaught == "threw"

RequestErrorResult == "false"

\* `if (result) ApiHelper.cleanupCompleted = true`
CompletedAfterAlways(res, completed) == TRUE

CompletedAfter(res, completed) == IF res = "true" THEN TRUE ELSE completed

\* observer list after the observer-path cleanup returned (clearTracked())
TrackedAfterCleanupKeepOnFailure(list, res) == IF res = "true" THEN << >> ELSE list

TrackedAfterCleanup(list, res) == << >>

\* tracking globals after an ok bulk-delete answer (handleDeleteResponse)
GlobalsAfterDeleteKeepToken(ids, pv, tok) == [ ids |-> << >>, pv |-> "", tok |-> tok ]

GlobalsAfterDelete(ids, pv, tok) == [ ids |-> << >>, pv |-> "", tok |-> "" ]

BulkDelete(ids, pv, tok) ==
  << [ apiDefinitionList |-> ids, projectDocumentVersionId |-> pv,
       authToken |-> tok ] >>

\* invocation c of deleteTrackedApiDefinitions() on instance h, up to its
\* first suspension (or to its return when it does not suspend)
Start(c, h) ==
  /\ SyncEnabled
  /\ pc[c] = "idle"
  /\ \A d \in Calls : d < c => pc[d] # "idle"
  /\ helper' = [ helper EXCEPT ![c] = h ]
  /\ alone' = [ alone EXCEPT ![c] = (Suspended = {}) ]
  /\ after' = [ after EXCEPT ![c] = { d \in Calls : pc[d] = "done" /\ alone[d] } ]
  /\ IF AlreadyHandled(cleanupInProgress[h], cleanupCompleted)
     THEN /\ pc' = [ pc EXCEPT ![c] = "done" ]
          /\ ret' = [ ret EXCEPT ![c] = "true" ]
          /\ cleanupInProgress' =
               [ cleanupInProgress EXCEPT ![h] = FlagAfterGuard(@) ]
          /\ UNCHANGED << trackVars, cleanupCompleted, path, callLocals,
                          request, sent, lastTracked >>
     ELSE IF Len(trackedApiDefinitions[h]) > 0
     THEN \* deleteDefinitionsUsingObserver up to the first existence GET
          /\ cleanupInProgress' = [ cleanupInProgress EXCEPT ![h] = TRUE ]
          /\ path' = [ path EXCEPT ![c] = "observer" ]
          /\ definitions' = [ definitions EXCEPT ![c] = trackedApiDefinitions[h] ]
          /\ idx' = [ idx EXCEPT ![c] = 1 ]
          /\ pc' = [ pc EXCEPT ![c] = "checkApiExists" ]
          /\ UNCHANGED << trackVars, cleanupCompleted, existingApis, postOutcome,
                          result, ret, request, sent, lastTracked >>
     ELSE IF Len(globalApiDefinitionIds) = 0
     THEN \* nothing tracked: completed, return true, finally clears the flag
          /\ cleanupCompleted' = TRUE
          /\ cleanupInProgress' = [ cleanupInProgress EXCEPT ![h] = FALSE ]
          /\ pc' = [ pc EXCEPT ![c] = "done" ]
          /\ ret' = [ ret EXCEPT ![c] = "true" ]
          /\ UNCHANGED << trackVars, path, callLocals, request, sent, lastTracked >>
     ELSE IF globalAuthToken = ""
     THEN \* deleteLegacyTrackedDefinitions returns false without a request
          /\ cleanupInProgress' = [ cleanupInProgress EXCEPT ![h] = TRUE ]
          /\ path' = [ path EXCEPT ![c] = "legacy" ]
          /\ result' = [ result EXCEPT ![c] = "false" ]
          /\ pc' = [ pc EXCEPT ![c] = "ret0" ]
          /\ UNCHANGED << trackVars, cleanupCompleted, definitions, idx,
                          existingApis, postOutcome, ret, request, sent, lastTracked >>
     ELSE \* deleteLegacyTrackedDefinitions posts the process-wide id list
          /\ cleanupInProgress' = [ cleanupInProgress EXCEPT ![h] = TRUE ]
          /\ path' = [ path EXCEPT ![c] = "legacy" ]
          /\ request' = [ request EXCEPT ![c] =
               BulkDelete(globalApiDefinitionIds,
                          globalProjectDocumentVersionId, globalAuthToken) ]
          /\ sent' = [ sent EXCEPT ![c] = @ + 1 ]
          /\ pc' = [ pc EXCEPT ![c] = "post" ]
          /\ UNCHANGED << trackVars, cleanupCompleted, callLocals, ret, lastTracked >>
  /\ UNCHANGED << capturedAuthToken, isListening, waiting, gets, nTracks >>

\* the awaited existence GET of uniqueApiIds[idx] is answered; the loop goes
\* on to the next GET, to "nothing to delete", or to the bulk-delete POST
CheckApiExistsAnswer(c, outcome) ==
  LET uniqueApiIds == Dedupe(IdsOf(definitions[c]))
      apiId        == uniqueApiIds[idx[c]]
      existing     == ExistingAfter(existingApis[c], apiId, CheckApiExists(outcome))
  IN
  /\ IOEnabled
  /\ pc[c] = "checkApiExists"
  /\ gets' = [ gets EXCEPT ![c] = Append(@, [ id |-> apiId, outcome |-> outcome ]) ]
  /\ existingApis' = [ existingApis EXCEPT ![c] = existing ]
  /\ IF idx[c] < Len(uniqueApiIds)
     THEN /\ idx' = [ idx EXCEPT ![c] = @ + 1 ]
          /\ UNCHANGED << pc, result, request, sent >>
     ELSE IF NothingToDelete(existing)
     THEN /\ result' = [ result EXCEPT ![c] = "true" ]
          /\ pc' = [ pc EXCEPT ![c] = "ret" ]
          /\ UNCHANGED << idx, request, sent >>
     ELSE /\ request' = [ request EXCEPT ![c] =
               BulkDelete(existing, DeleteVersionId(definitions[c]),
                          definitions[c][1].authToken) ]
          /\ sent' = [ sent EXCEPT ![c] = @ + 1 ]
          /\ pc' = [ pc EXCEPT ![c] = "post" ]
          /\ UNCHANGED << idx, result >>
  /\ UNCHANGED << trackVars, cleanupInProgress, cleanupCompleted,
                  capturedAuthToken, isListening, waiting, helper, path,
                  definitions, postOutcome, ret, lastTracked, nTracks,
                  histVars >>

\* the awaited bulk-delete POST is answered or raises
PostAnswer(c, outcome) ==
  /\ IOEnabled
  /\ pc[c] = "post"
  /\ postOutcome' = [ postOutcome EXCEPT ![c] = outcome ]
  /\ IF outcome = "raise"
     THEN /\ result' = [ result EXCEPT ![c] = RequestErrorResult ]
          /\ pc' = [ pc EXCEPT ![c] = "ret" ]
     ELSE /\ pc' = [ pc EXCEPT ![c] = "text" ]
          /\ UNCHANGED result
  /\ UNCHANGED << trackVars, cleanupInProgress, cleanupCompleted,
                  capturedAuthToken, isListening, waiting, helper, path,
                  definitions, idx, existingApis, ret, request, sent, gets,
                  lastTracked, nTracks, histVars >>

\* handleDeleteResponse after `await response.text()` (reading the body of an
\* answered request resolves); its return and the caller's continuation are
\* microtasks, so Return(c) is the next step
HandleDeleteResponse(c) ==
  LET h == helper[c]
      g == GlobalsAfterDelete(globalApiDefinitionIds,
                              globalProjectDocumentVersionId, globalAuthToken)
  IN
  /\ IOEnabled
  /\ pc[c] = "text"
  /\ IF postOutcome[c] = "ok"
     THEN /\ trackedApiDefinitions' = [ trackedApiDefinitions EXCEPT ![h] = << >> ]
          /\ lastTracked' = [ lastTracked EXCEPT ![h] = NoTracking ]
          /\ globalApiDefinitionIds' = g.ids
          /\ globalProjectDocumentVersionId' = g.pv
          /\ globalAuthToken' = g.tok
          /\ result' = [ result EXCEPT ![c] = "true" ]
     ELSE /\ result' = [ result EXCEPT ![c] = "false" ]
          /\ UNCHANGED << trackVars, lastTracked >>
  /\ pc' = [ pc EXCEPT ![c] = "ret" ]
  /\ UNCHANGED << cleanupInProgress, cleanupCompleted, capturedAuthToken,
                  isListening, waiting, helper, path, definitions, idx,
                  existingApis, postOutcome, ret, request, sent, gets, nTracks, histVars >>

\* deleteTrackedApiDefinitions resumes after `await this.delete...()`:
\* clears its tracking, sets the completed flag, returns; finally
Return(c) ==
  LET h == helper[c] IN
  /\ pc[c] \in {"ret0", "ret"}
  /\ pc' = [ pc EXCEPT ![c] = "done" ]
  /\ ret' = [ ret EXCEPT ![c] = result[c] ]
  /\ cleanupInProgress' = [ cleanupInProgress EXCEPT ![h] = FALSE ]
  /\ IF result[c] = "threw"
     THEN UNCHANGED << trackVars, cleanupCompleted, lastTracked >>
     ELSE /\ cleanupCompleted' = CompletedAfter(result[c], cleanupCompleted)
          /\ IF path[c] = "observer"
             THEN /\ trackedApiDefinitions' =
                       [ trackedApiDefinitions EXCEPT ![h] =
                           TrackedAfterCleanup(@, result[c]) ]
                  /\ lastTracked' =
                       [ lastTracked EXCEPT ![h] =
                           IF trackedApiDefinitions'[h] = << >>
                           THEN NoTracking ELSE @ ]
                  /\ UNCHANGED globalApiDefinitionIds
             ELSE /\ globalApiDefinitionIds' = << >>
                  /\ UNCHANGED << trackedApiDefinitions, lastTracked >>
          /\ UNCHANGED << globalProjectDocumentVersionId, globalAuthToken >>
  /\ definitions' = [ definitions EXCEPT ![c] = << >> ]
  /\ idx' = [ idx EXCEPT ![c] = 0 ]
  /\ gets' = [ gets EXCEPT ![c] = << >> ]
  /\ existingApis' = [ existingApis EXCEPT ![c] = << >> ]
  /\ result' = [ result EXCEPT ![c] = "none" ]
  /\ postOutcome' = [ postOutcome EXCEPT ![c] = "none" ]
  /\ request' = [ request EXCEPT ![c] = << >> ]
  /\ UNCHANGED << capturedAuthToken, isListening, waiting, helper, path,
                  sent, nTracks, histVars >>

\* the test runner and the specification parser when a specification does
\* not run them
RunIdle == phase = "free"

ParserIdle ==
  /\ formatParsers = << >>
  /\ parser = << >>
  /\ files = << >>
  /\ call = << >>
  /\ returned = << >>

\* the response observer's bookkeeping when a specification does not run it
ObserverIdle ==
  /\ observers = << >>
  /\ listeners = 0
  /\ promise = << >>
  /\ timer = << >>
  /\ inflight = << >>
  /\ registered = << >>
  /\ notified = << >>
  /\ delivered = << >>
  /\ nResponses = 0

\* no retry() invocation when a specification does not run any
RetryIdle == retries = << >>

\* no ApiDataSeeder when a specification does not run one
SeederIdle == seeder = << >>

UtilIdle == ObserverIdle /\ RetryIdle /\ SeederIdle

\* the lifecycle tracker under arbitrary callers
Next ==
  \/ /\ \E h \in Trackers, id \in Ids, pv \in Pvs, tok \in Tokens \cup {""} :
          TrackApiDefinitionManually(h, id, pv, tok)
     /\ UNCHANGED << runVars, parserVars, utilVars >>
  \/ /\ \E h \in Trackers : WaitForApiCreationResponse(h)
     /\ UNCHANGED << runVars, parserVars, utilVars >>
  \/ /\ \E h \in Trackers, tok \in Tokens : HandleRequest(h, tok)
     /\ UNCHANGED << runVars, parserVars, utilVars >>
  \/ /\ \E h \in Trackers, id \in Ids, pv \in Pvs : HandleResponse(h, id, pv)
     /\ UNCHANGED << runVars, parserVars, utilVars >>
  \/ /\ ResetCleanupState
     /\ UNCHANGED << runVars, parserVars, utilVars >>
  \/ /\ \E c \in Calls, h \in Helpers : Start(c, h)
     /\ UNCHANGED << runVars, parserVars, utilVars >>
  \/ /\ \E c \in Calls, outcome \in Outcomes : CheckApiExistsAnswer(c, outcome)
     /\ UNCHANGED << runVars, parserVars, utilVars >>
  \/ /\ \E c \in Calls, outcome \in Outcomes : PostAnswer(c, outcome)
     /\ UNCHANGED << runVars, parserVars, utilVars >>
  \/ /\ \E c \in Calls : HandleDeleteResponse(c)
     /\ UNCHANGED << runVars, parserVars, utilVars >>
  \/ /\ \E c \in Calls : Return(c)
     /\ UNCHANGED << runVars, parserVars, utilVars >>

\* the cleanup lifecycle alone: no test hooks, no parser
LifecycleInit == Init /\ RunIdle /\ ParserIdle /\ UtilIdle

Spec == LifecycleInit /\ [][Next]_vars

\* ------------------------------------------------------------ properties
Returns(c) == pc[c] # "done" /\ pc'[c] = "done"
Starts(c)  == pc[c] = "idle" /\ pc'[c] # "idle"
Failed(c)  == sent[c] = 1 /\ postOutcome[c] \in {"nonok", "raise"}
RequestIds(c) == IF request[c] = << >> THEN {} ELSE Range(request[c][1].apiDefinitionList)

\* C1 (as stated): of two cleanup calls made in succession with no
\* resetCleanupState() in between, at most one bulk-delete request is sent
\* across both, and if the first returned true so does the second.
C1_TwiceInSuccession ==
  \A c1, c2 \in Calls :
    (pc[c2] = "done" /\ c1 \in after[c2]) =>
      /\ sent[c1] + sent[c2] <= 1
      /\ ret[c1] = "true" => ret[c2] = "true"

\* C1 (amended): when the first of two calls in succession returned true, the
\* second returns true and at most one bulk-delete request is sent across both.
C1_TwiceAfterSuccess ==
  \A c1, c2 \in Calls :
    (pc[c2] = "done" /\ c1 \in after[c2] /\ ret[c1] = "true") =>
      /\ sent[c1] + sent[c2] <= 1
      /\ ret[c2] = "true"

C1_Witness ==
  \E c1, c2 \in Calls :
    /\ pc[c2] = "done" /\ c1 \in after[c2]
    /\ ret[c1] = "true" /\ sent[c1] = 1
    /\ helper[c1] # helper[c2]

\* C2: every observer list holds exactly one entry per id tracked since its
\* last clear, carrying the projectDocumentVersionId of the latest tracking.
C2_LastWriteWins ==
  \A h \in Helpers :
    LET list == trackedApiDefinitions[h] IN
    /\ \A i, j \in 1..Len(list) :
         list[i].apiDefinitionId = list[j].apiDefinitionId => i = j
    /\ \A id \in Ids :
         /\ lastTracked[h][id] # "" <=> id \in Range(IdsOf(list))
         /\ \A i \in 1..Len(list) :
              list[i].apiDefinitionId = id =>
                list[i].projectDocumentVersionId = lastTracked[h][id]

C2_Witness ==
  \E h \in Helpers :
    /\ nTracks = 2
    /\ \A c \in Calls : pc[c] = "idle"
    /\ Len(trackedApiDefinitions[h]) = 1
    /\ trackedApiDefinitions[h][1].projectDocumentVersionId = "v2"
    /\ globalProjectDocumentVersionId = "v1"

\* C3: the observer path sends at most one bulk-delete request per cleanup;
\* its apiDefinitionList is the deduplicated tracked ids whose existence GET
\* answered ok, and its projectDocumentVersionId that of the first tuple.
C3_BulkDeleteContent ==
  \A c \in Calls :
    /\ sent[c] <= 1
    /\ (pc[c] = "post" /\ path[c] = "observer") =>
         LET AnsweredOk(id) ==
               \E i \in 1..Len(gets[c]) :
                 gets[c][i].id = id /\ gets[c][i].outcome = "ok"
         IN  /\ request[c][1].apiDefinitionList =
                  SelectSeq(Dedupe(IdsOf(definitions[c])), AnsweredOk)
             /\ request[c][1].projectDocumentVersionId =
                  definitions[c][1].projectDocumentVersionId

C3_Witness ==
  \E c \in Calls :
    /\ pc[c] = "post" /\ path[c] = "observer"
    /\ Len(definitions[c]) = 2
    /\ definitions[c][1].projectDocumentVersionId # definitions[c][2].projectDocumentVersionId
    /\ request[c][1].apiDefinitionList = << definitions[c][2].apiDefinitionId >>
    /\ \E i \in 1..Len(gets[c]) : gets[c][i].outcome = "raise"

\* C4: a cleanup over a non-empty observer list whose existence checks all
\* report "does not exist" sends no bulk-delete request and returns true.
C4_NothingExists ==
  [][ \A c \in Calls :
        ( /\ Returns(c)
          /\ path[c] = "observer"
          /\ \A i \in 1..Len(gets[c]) : gets[c][i].outcome # "ok" )
        => (sent'[c] = 0 /\ ret'[c] = "true") ]_vars

C4_Witness ==
  \E c \in Calls :
    pc[c] = "done" /\ path[c] = "observer" /\ sent[c] = 0 /\ ret[c] = "true"

\* C5: a cleanup call always settles with a boolean, never an exception, and
\* with false when its bulk-delete request was not answered ok.
C5_NeverThrows ==
  [][ \A c \in Calls :
        Returns(c) =>
          /\ ret'[c] \in {"true", "false"}
          /\ Failed(c) => ret'[c] = "false" ]_vars

C5_Witness ==
  \E c \in Calls : pc[c] = "done" /\ sent[c] = 1 /\ ret[c] = "false"

C8_OneCleanupInFlight == Cardinality(Suspended) <= 1

\* C9: a call on an instance that has an earlier call still suspended returns
\* true at once, sends nothing, changes no tracking state and leaves the
\* in-progress flag set.
C9_ReentrantNoOp ==
  [][ \A c \in Calls :
        ( /\ Starts(c)
          /\ \E c0 \in Suspended : helper[c0] = helper'[c] )
        => /\ pc'[c] = "done" /\ ret'[c] = "true"
           /\ cleanupInProgress'[helper'[c]]
           /\ UNCHANGED << trackVars, cleanupInProgress, cleanupCompleted,
                           request, sent, gets >> ]_vars

C9_Witness ==
  \E c, c0 \in Calls :
    /\ c0 < c /\ helper[c0] = helper[c]
    /\ pc[c0] = "checkApiExists" /\ cleanupInProgress[helper[c0]]
    /\ pc[c] = "done" /\ ret[c] = "true" /\ path[c] = "none"
    /\ ~cleanupCompleted /\ \A d \in Calls : ~alone[d] \/ d = c0

\* C10: the completed flag turns true only as a cleanup call returns true, and
\* while it is true every call that is made returns true at once without a
\* request and without touching tracked definitions.
C10_CompletedFlag ==
  [][ /\ (~cleanupCompleted /\ cleanupCompleted') =>
           \E c \in Calls : Returns(c) /\ ret'[c] = "true"
      /\ \A c \in Calls :
           (Starts(c) /\ cleanupCompleted) =>
             /\ pc'[c] = "done" /\ ret'[c] = "true"
             /\ UNCHANGED << trackVars, cleanupCompleted, request, sent, gets >> ]_vars

C10_Witness ==
  \E c, c1 \in Calls :
    /\ c1 \in after[c] /\ ret[c1] = "true" /\ path[c1] # "none"
    /\ helper[c] # helper[c1]
    /\ pc[c] = "done" /\ ret[c] = "true" /\ path[c] = "none"
    /\ cleanupCompleted
    /\ trackedApiDefinitions["h1"] # << >>

\* ======================================================================
\* Test hooks: every test resets the cleanup state, creates and tracks its
\* definitions, and runs one awaited cleanup in its teardown
\* (TestSetupManager.setupTest / teardownTest, test.beforeEach / afterEach).
\* Tests of one worker process run one after the other; test number t uses
\* cleanup invocation t.
\* ======================================================================
\* ApiHelper.resetCleanupState(): the completed flag after the call
ResetCompletedKept(completed) == completed

ResetCompleted(completed) == FALSE

TestsLeft(pcs) == \E c \in Calls : pcs[c] = "idle"

\* the cleanup invocation of the running test
CurrentTest == CHOOSE c \in Calls : pc[c] = "idle" /\ \A d \in Calls : d < c => pc[d] # "idle"

\* where the runner goes when the teardown's cleanup has settled
NextPhase(pcs) == IF TestsLeft(pcs) THEN "beforeEach" ELSE "end"

\* setupTest() / beforeEach up to the reset: resetCleanupState() is the first
\* statement; the page and the ApiHelper instances of the test are new objects
BeforeEach ==
  /\ phase = "beforeEach"
  /\ phase' = "body"
  /\ cleanupCompleted' = ResetCompleted(cleanupCompleted)
  /\ alone' = [ c \in Calls |-> FALSE ]
  /\ trackedApiDefinitions' = [ h \in Helpers |-> << >> ]
  /\ lastTracked' = [ h \in Helpers |-> NoTracking ]
  /\ cleanupInProgress' = [ h \in Helpers |-> FALSE ]
  /\ isListening' = [ h \in Helpers |-> FALSE ]
  /\ waiting' = [ h \in Helpers |-> FALSE ]
  /\ UNCHANGED << globalApiDefinitionIds, globalProjectDocumentVersionId,
                  globalAuthToken, capturedAuthToken, pc, helper, path,
                  callLocals, ret, request, sent, gets, nTracks, after >>

\* the test body (createApiDefinition, the import tests): creation is
\* awaited and tracked
BodyTrackManually(h, id, pv, tok) ==
  /\ phase = "body"
  /\ TrackApiDefinitionManually(h, id, pv, tok)

BodyWait(h) ==
  /\ phase = "body"
  /\ WaitForApiCreationResponse(h)

BodyRequest(h, tok) ==
  /\ phase = "body"
  /\ HandleRequest(h, tok)

BodyResponse(h, id, pv) ==
  /\ phase = "body"
  /\ HandleResponse(h, id, pv)

\* teardownTest() / afterEach: `await apiHelper.deleteTrackedApiDefinitions()`
\* on the stored instance or on a new one
AfterEach(h) ==
  /\ phase = "body"
  /\ Start(CurrentTest, h)
  /\ phase' = IF pc'[CurrentTest] = "done" THEN NextPhase(pc') ELSE "afterEach"

\* the hook stays suspended on the cleanup until it settles
AfterEachGet(c, outcome) ==
  /\ phase = "afterEach"
  /\ CheckApiExistsAnswer(c, outcome)

AfterEachPost(c, outcome) ==
  /\ phase = "afterEach"
  /\ PostAnswer(c, outcome)

AfterEachText(c) ==
  /\ phase = "afterEach"
  /\ HandleDeleteResponse(c)

AfterEachReturn(c) ==
  /\ phase = "afterEach"
  /\ Return(c)
  /\ phase' = NextPhase(pc')

TestInit == Init /\ phase = "beforeEach" /\ ParserIdle /\ UtilIdle

TestNext ==
  \/ BeforeEach /\ UNCHANGED << parserVars, utilVars >>
  \/ /\ \E h \in Trackers, id \in Ids, pv \in Pvs, tok \in Tokens \cup {""} :
          BodyTrackManually(h, id, pv, tok)
     /\ UNCHANGED << runVars, parserVars, utilVars >>
  \/ /\ \E h \in Trackers : BodyWait(h)
     /\ UNCHANGED << runVars, parserVars, utilVars >>
  \/ /\ \E h \in Trackers, tok \in Tokens : BodyRequest(h, tok)
     /\ UNCHANGED << runVars, parserVars, utilVars >>
  \/ /\ \E h \in Trackers, id \in Ids, pv \in Pvs : BodyResponse(h, id, pv)
     /\ UNCHANGED << runVars, parserVars, utilVars >>
  \/ (\E h \in Helpers : AfterEach(h)) /\ UNCHANGED << parserVars, utilVars >>
  \/ /\ \E c \in Calls, outcome \in Outcomes : AfterEachGet(c, outcome)
     /\ UNCHANGED << runVars, parserVars, utilVars >>
  \/ /\ \E c \in Calls, outcome \in Outcomes : AfterEachPost(c, outcome)
     /\ UNCHANGED << runVars, parserVars, utilVars >>
  \/ /\ \E c \in Calls : AfterEachText(c)
     /\ UNCHANGED << runVars, parserVars, utilVars >>
  \/ (\E c \in Calls : AfterEachReturn(c)) /\ UNCHANGED << parserVars, utilVars >>

TestSpec == TestInit /\ [][TestNext]_allVars

\* C11: the completed flag is reset at the start of each test, before any
\* definition of that test is tracked, so the cleanup call of a test's
\* teardown is never skipped by a guard: whenever a definition is tracked the
\* flag is false, and every teardown's cleanup starts from the test body with
\* neither guard taken, whatever the earlier tests left behind.
C11_TeardownNotSkipped ==
  [][ /\ nTracks' # nTracks => phase = "body" /\ ~cleanupCompleted
      /\ \A c \in Calls : Starts(c) =>
           /\ phase = "body"
           /\ ~AlreadyHandled(cleanupInProgress[helper'[c]], cleanupCompleted) ]_allVars

\* the second test's cleanup is past its guards after the first test's
\* cleanup completed (and had set the flag)
C11_Witness ==
  /\ pc[1] = "done" /\ ret[1] = "true"
  /\ pc[2] \in {"checkApiExists", "post"}

\* ======================================================================
\* OpenAPI specification parser (ApiSpecParserFactory, ApiSpecParser, the
\* format parsers).  Parsing is synchronous: one call is one step.
\* ======================================================================

\* ------------------------------------------------- JavaScript values
\* Values are tagged records.  An object keeps its entries in insertion
\* order (the order Object.keys reports); a raised exception is a value
\* that every operation passes on.
Undefined == [ t |-> "undefined" ]
Str(s)    == [ t |-> "string", v |-> s ]
KV(k, v)  == [ k |-> k, v |-> v ]
Obj(entries) == [ t |-> "object", e |-> entries ]
Arr(items)   == [ t |-> "array", e |-> items ]
Err(kind, detail) == [ t |-> "error", kind |-> kind, detail |-> detail ]

EmptyObject == Obj(<< >>)
EmptyArray  == Arr(<< >>)
TypeError   == Err("TypeError", << >>)

IsError(v) == v.t = "error"
Nullish(v) == v.t \in {"undefined", "null"}
Truthy(v)  == ~Nullish(v) /\ ~(v.t = "string" /\ v.v = "")
\* a document in the sense of the data model: a tree of maps and sequences
IsTree(v)  == v.t \in {"object", "array"}

HasKey(o, k) == o.t = "object" /\ \E i \in 1..Len(o.e) : o.e[i].k = k

\* the methods every decoded mapping inherits from Object.prototype (both
\* decoders build plain objects); a property read finds them, Object.keys
\* does not
ObjectPrototype == {"constructor", "toString", "valueOf", "hasOwnProperty"}

Function(name) == [ t |-> "function", name |-> name ]

\* o.k and o[k]: a TypeError on undefined and null, the own entry if there is
\* one, else what the prototype has
Prop(o, k) ==
  IF IsError(o) THEN o
  ELSE IF Nullish(o) THEN TypeError
  ELSE IF HasKey(o, k) THEN o.e[CHOOSE i \in 1..Len(o.e) : o.e[i].k = k].v
  ELSE IF o.t = "object" /\ k \in ObjectPrototype THEN Function(k)
  ELSE Undefined

\* o?.k and o?.[k]
OptProp(o, k) ==
  IF IsError(o) THEN o
  ELSE IF Nullish(o) THEN Undefined
  ELSE Prop(o, k)

\* a || b
OrElse(a, b) == IF IsError(a) THEN a ELSE IF Truthy(a) THEN a ELSE b

\* Object.keys(o), as an array of strings
ObjectKeys(o) ==
  IF IsError(o) THEN o
  ELSE IF Nullish(o) THEN TypeError
  ELSE IF o.t = "object" THEN Arr([ i \in 1..Len(o.e) |-> Str(o.e[i].k) ])
  ELSE EmptyArray

\* ------------------------------------------------------------ strings
\* A string is a sequence of tokens (single characters and whole words), so
\* that trim, startsWith, endsWith, includes and extname are computed.
Whitespace == {" ", "\n"}

SetMin(S) == CHOOSE x \in S : \A y \in S : x <= y
SetMax(S) == CHOOSE x \in S : \A y \in S : x >= y

Trim(str) ==
  LET solid == { i \in 1..Len(str) : str[i] \notin Whitespace }
  IN  IF solid = {} THEN << >> ELSE SubSeq(str, SetMin(solid), SetMax(solid))

StartsWith(str, pre) == Len(pre) <= Len(str) /\ SubSeq(str, 1, Len(pre)) = pre

EndsWith(str, suf) ==
  Len(suf) <= Len(str) /\ SubSeq(str, Len(str) - Len(suf) + 1, Len(str)) = suf

Includes(str, pat) ==
  \E i \in 1..(Len(str) - Len(pat) + 1) : SubSeq(str, i, i + Len(pat) - 1) = pat

LowerToken(tok) ==
  CASE tok = "YAML" -> "yaml"
    [] tok = "YML"  -> "yml"
    [] tok = "JSON" -> "json"
    [] tok = "XML"  -> "xml"
    [] tok = "API"  -> "api"
    [] OTHER -> tok

ToLowerCase(str) == [ i \in 1..Len(str) |-> LowerToken(str[i]) ]

\* path.extname: from the last "." of the last path segment to the end; empty
\* when there is none or when it is the first character of the segment
ExtName(filePath) ==
  LET slashes == { i \in 1..Len(filePath) : filePath[i] = "/" }
      first   == IF slashes = {} THEN 1 ELSE SetMax(slashes) + 1
      dots    == { i \in first..Len(filePath) : filePath[i] = "." }
  IN  IF dots = {} \/ SetMax(dots) = first THEN << >>
      ELSE SubSeq(filePath, SetMax(dots), Len(filePath))

\* ---------------------------------------------------------- documents
DocInfo(title, version) ==
  Obj(<< KV("info", Obj(<< KV("title", Str(title)), KV("version", Str(version)) >>)) >>)

DocHello ==
  Obj(<< KV("openapi", Str("3.0.0")),
         KV("info", Obj(<< KV("title", Str("T")), KV("version", Str("v1")) >>)) >>)

DocNoVersion ==
  Obj(<< KV("openapi", Str("3.0.0")), KV("info", Obj(<< KV("title", Str("T")) >>)) >>)

DocNoTitle == Obj(<< KV("info", Obj(<< KV("version", Str("v1")) >>)) >>)

DocNoInfo == Obj(<< KV("paths", EmptyObject) >>)

\* a document with every section the accessors read.  /pets comes before
\* /hello; /pets has a path-level parameters list next to its one operation;
\* response 200 offers application/xml and then application/json, response
\* 404 only application/xml
SchemaOf(name) == Obj(<< KV("schema", Obj(<< KV("$ref", Str(name)) >>)) >>)

ResponsesPets ==
  Obj(<< KV("200", Obj(<< KV("description", Str("ok")),
                          KV("headers", Obj(<< KV("X-Rate", EmptyObject) >>)),
                          KV("content", Obj(<< KV("application/xml", SchemaOf("PetsXml")),
                                               KV("application/json", SchemaOf("PetsJson")) >>)) >>)),
         KV("404", Obj(<< KV("description", Str("none")),
                          KV("content", Obj(<< KV("application/xml", SchemaOf("ErrorXml")) >>)) >>)) >>)

OperationGetPets ==
  Obj(<< KV("summary", Str("List pets")),
         KV("parameters", Arr(<< Obj(<< KV("name", Str("limit")) >>) >>)),
         KV("responses", ResponsesPets),
         KV("security", Arr(<< Obj(<< KV("oauth", EmptyArray) >>) >>)) >>)

PathsPets ==
  Obj(<< KV("/pets", Obj(<< KV("parameters", Arr(<< Obj(<< KV("name", Str("tenant")) >>) >>)),
                            KV("get", OperationGetPets) >>)),
         KV("/hello", Obj(<< KV("post", Obj(<< KV("description", Str("Say hello")) >>)) >>)) >>)

ComponentsPets ==
  Obj(<< KV("schemas",
            Obj(<< KV("Pet", Obj(<< KV("properties", Obj(<< KV("name", EmptyObject) >>)) >>)) >>)),
         KV("securitySchemes",
            Obj(<< KV("oauth", Obj(<< KV("type", Str("oauth2")),
                     KV("flows", Obj(<< KV("implicit",
                        Obj(<< KV("scopes", Obj(<< KV("read", Str("r")) >>)) >>)) >>)) >>)) >>)) >>)

DocPets ==
  Obj(<< KV("openapi", Str("3.0.0")),
         KV("info", Obj(<< KV("title", Str("Pets")), KV("version", Str("v1")) >>)),
         KV("servers", Arr(<< Obj(<< KV("url", Str("https://pets")) >>) >>)),
         KV("tags", Arr(<< Obj(<< KV("name", Str("pets")) >>) >>)),
         KV("paths", PathsPets),
         KV("components", ComponentsPets) >>)

\* ------------------------------------------------------------- texts
\* openapi: 3.0.0 / info: / title: T / version: v1   (block YAML)
TextYaml ==
  << "openapi", ":", " ", "3.0.0", "\n", "info", ":", "\n",
     " ", "title", ":", " ", "T", "\n", " ", "version", ":", " ", "v1", "\n" >>

\* the same without the version line
TextNoVersionYaml ==
  << "openapi", ":", " ", "3.0.0", "\n", "info", ":", "\n",
     " ", "title", ":", " ", "T", "\n" >>

\* {"info":{"title":"T","version":"v1"}}
TextJson ==
  << "{", "\"info\"", ":", "{", "\"title\"", ":", "\"T\"", ",",
     "\"version\"", ":", "\"v1\"", "}", "}" >>

\* {"info":{"title":"Pets - API","version":"v1"}}
TextJsonDash ==
  << "{", "\"info\"", ":", "{", "\"title\"", ":", "\"Pets", " ", "-", " ", "API\"", ",",
     "\"version\"", ":", "\"v1\"", "}", "}" >>

\* {info: {title: T, version: v1}}   (a YAML flow mapping, not JSON)
TextYamlFlow ==
  << "{", "info", ":", " ", "{", "title", ":", " ", "T", ",", " ",
     "version", ":", " ", "v1", "}", "}" >>

\* title: T   (one-line YAML)
TextYamlPlain == << "title", ":", " ", "T" >>

\* {"info":{"version":"v1"}}
TextNoTitle ==
  << "{", "\"info\"", ":", "{", "\"version\"", ":", "\"v1\"", "}", "}" >>

\* {"paths":{}}
TextNoInfo == << "{", "\"paths\"", ":", "{", "}", "}" >>

\* <api x="[1]"/>
TextXml == << "<", "api", " ", "x", "=", "\"", "[", "1", "]", "\"", "/>" >>

\* an empty file
TextEmpty == << >>

\* {"openapi":"3.0.0","info":{"title":"Pets","version":"v1"}, ... }: the JSON
\* text of the document with every section, its middle as one token
TextPets == << "{", "\"openapi\"", ":", "\"3.0.0\"", ",", "pets document", "}" >>

\* what the texts are valid as
JsonDocuments == { TextJson, TextJsonDash, TextNoTitle, TextNoInfo, TextPets }
YamlDocuments == { TextYaml, TextNoVersionYaml, TextYamlFlow, TextYamlPlain }

\* ------------------------------------------------------ format parsers
\* yaml.load: YAML documents, and JSON documents since JSON is YAML flow
\* syntax; an empty stream gives undefined
YamlLoad(content) ==
  CASE content = TextYaml          -> DocHello
    [] content = TextNoVersionYaml -> DocNoVersion
    [] content = TextJson          -> DocInfo("T", "v1")
    [] content = TextJsonDash      -> DocInfo("Pets - API", "v1")
    [] content = TextYamlFlow      -> DocInfo("T", "v1")
    [] content = TextYamlPlain     -> Obj(<< KV("title", Str("T")) >>)
    [] content = TextNoTitle       -> DocNoTitle
    [] content = TextNoInfo        -> DocNoInfo
    [] content = TextEmpty         -> Undefined
    [] content = TextPets          -> DocPets
    [] OTHER -> Err("ParseError", << "yaml" >>)

\* JSON.parse
JsonParse(content) ==
  CASE content = TextJson     -> DocInfo("T", "v1")
    [] content = TextJsonDash -> DocInfo("Pets - API", "v1")
    [] content = TextNoTitle  -> DocNoTitle
    [] content = TextNoInfo   -> DocNoInfo
    [] content = TextPets     -> DocPets
    [] OTHER -> Err("ParseError", << "json" >>)

BuiltIn == << "yaml", "json" >>
Custom  == { "xml", "toml" }

\* canParse(source, sourceType) of YamlApiSpecParser, JsonApiSpecParser and
\* the XML and TOML parsers of the extension examples
CanParse(fp, source, sourceType) ==
  LET ext     == ToLowerCase(ExtName(source))
      trimmed == Trim(source)
  IN
  CASE fp = "yaml" ->
         IF sourceType = "file_path"
         THEN ext = << ".", "yaml" >> \/ ext = << ".", "yml" >>
         ELSE IF sourceType = "content_string"
         THEN \/ StartsWith(trimmed, << "openapi", ":" >>)
              \/ StartsWith(trimmed, << "swagger", ":" >>)
              \/ Includes(trimmed, << ":", "\n" >>)
              \/ Includes(trimmed, << "-", " " >>)
         ELSE FALSE
    [] fp = "json" ->
         IF sourceType = "file_path" THEN ext = << ".", "json" >>
         ELSE IF sourceType = "content_string"
         THEN StartsWith(trimmed, << "{" >>) /\ EndsWith(trimmed, << "}" >>)
         ELSE FALSE
    [] fp = "xml" ->
         IF sourceType = "file_path"
         THEN EndsWith(ToLowerCase(source), << ".", "xml" >>)
         ELSE IF sourceType = "content_string"
         THEN StartsWith(trimmed, << "<", "?xml" >>) \/ StartsWith(trimmed, << "<" >>)
         ELSE FALSE
    [] fp = "toml" ->
         IF sourceType = "file_path"
         THEN EndsWith(ToLowerCase(source), << ".", "toml" >>)
         ELSE IF sourceType = "content_string"
         THEN /\ Includes(trimmed, << "[" >>)
              /\ Includes(trimmed, << "=" >>)
              /\ ~StartsWith(trimmed, << "{" >>)
         ELSE FALSE

\* parse(content); the example parsers always raise
FormatParse(fp, content) ==
  CASE fp = "yaml" -> YamlLoad(content)
    [] fp = "json" -> JsonParse(content)
    [] OTHER -> Err("ParseError", << fp >>)

GetSupportedExtensions(fp) ==
  CASE fp = "yaml" -> << ".yaml", ".yml" >>
    [] fp = "json" -> << ".json" >>
    [] fp = "xml"  -> << ".xml" >>
    [] fp = "toml" -> << ".toml" >>

\* formatParsers.flatMap(p => p.getSupportedExtensions())
RECURSIVE SupportedExtensions(_)
SupportedExtensions(list) ==
  IF list = << >> THEN << >>
  ELSE GetSupportedExtensions(Head(list)) \o SupportedExtensions(Tail(list))

\* formatParsers.find(p => p.canParse(source, sourceType)): its position, 0
\* when none matches
FindParserLast(list, source, sourceType) ==
  LET hits == { i \in 1..Len(list) : CanParse(list[i], source, sourceType) }
  IN  IF hits = {} THEN 0 ELSE SetMax(hits)

FindParser(list, source, sourceType) ==
  LET hits == { i \in 1..Len(list) : CanParse(list[i], source, sourceType) }
  IN  IF hits = {} THEN 0 ELSE SetMin(hits)

\* ------------------------------------------------------- ApiSpecParser
MaxRegistered == 1     \* registerFormatParser() calls

JsNull == [ t |-> "null" ]

Parsers     == {"p1", "p2"}     \* ApiSpecParser instances
MainParsers == {"p1"}           \* constructed with any options; the others are
                                \* further parsers made by fromFile()

\* file paths
PathYaml  == << "api", ".", "yaml" >>
PathUpper == << "specs", "/", "API", ".", "YML" >>
PathJson  == << "api", ".", "json" >>
PathTxt   == << "notes", ".", "txt" >>
PathXml   == << "legacy", ".", "xml" >>
PathGone  == << "gone", ".", "yaml" >>       \* no such file
UrlSource == << "https", ":", "//", "host", "/", "api", ".", "yaml" >>

FilePaths      == { PathYaml, PathUpper, PathJson, PathTxt, PathXml, PathGone }
FixturePaths   == { PathYaml }                \* files rewritten between calls
FixtureTexts   == { TextYaml, TextNoVersionYaml, TextEmpty }
ContentSources == { TextYaml, TextJson, TextJsonDash, TextYamlFlow, TextYamlPlain,
                    TextNoTitle, TextNoInfo, TextXml }
CustomSources  == { << TextXml, "content_string" >>, << PathXml, "file_path" >>,
                    << PathTxt, "file_path" >>, << UrlSource, "url" >>,
                    << TextYaml, "buffer" >> }
CustomLists    == { << "xml" >>, << "xml", "toml" >>, << "toml", "xml" >> }

InitialFiles ==
  [ f \in FilePaths \ { PathGone } |->
      CASE f = PathYaml  -> TextYaml
        [] f = PathUpper -> TextNoVersionYaml
        [] f = PathJson  -> TextJson
        [] f = PathTxt   -> TextYamlPlain
        [] f = PathXml   -> TextXml ]

\* the fields of an instance; `shared` says that formatParsers is the
\* factory's own array (passed by reference), `own` is the array otherwise
NewParser(source, sourceType, shared, own, validationEnabled, cacheEnabled) ==
  [ source |-> source, sourceType |-> sourceType, shared |-> shared, own |-> own,
    validationEnabled |-> validationEnabled, cacheEnabled |-> cacheEnabled,
    apiSpec |-> JsNull ]

NoParser == NewParser(<< >>, "none", TRUE, << >>, TRUE, TRUE)

Constructed(p) == parser[p].sourceType # "none"

FormatParsersOf(inst, registry) == IF inst.shared THEN registry ELSE inst.own

\* validateApiSpec: the missing field it raises for, "" when it returns
ValidateApiSpec(spec) ==
  IF ~Truthy(spec) \/ ~Truthy(Prop(spec, "info")) THEN "info"
  ELSE IF ~Truthy(Prop(Prop(spec, "info"), "title")) THEN "title"
  ELSE IF ~Truthy(Prop(Prop(spec, "info"), "version")) THEN "version"
  ELSE ""

\* `if (this.cacheEnabled && this.apiSpec) return this.apiSpec`
CacheHitNever(cacheEnabled, apiSpec) == FALSE

CacheHit(cacheEnabled, apiSpec) == cacheEnabled /\ Truthy(apiSpec)

\* the source types whose content parseApiSpec obtains
ContentAvailableAlways(sourceType) == TRUE

ContentAvailable(sourceType) == sourceType \in {"file_path", "content_string"}

\* what one parseApiSpec() call does: the value it returns or the error it
\* raises (every error is re-raised as "Failed to parse API specification:
\* <error>", which keeps its kind and detail), the apiSpec field afterwards,
\* the file reads, the parsers whose canParse was called, the parser that
\* decoded
ParseResult(value, apiSpec, reads, consulted, decoder) ==
  [ value |-> value, apiSpec |-> apiSpec, reads |-> reads,
    consulted |-> consulted, decoder |-> decoder ]

\* lines 292-300: the content decoded by the chosen parser, then validated
Validated(inst, decoded, reads, consulted, decoder) ==
  IF IsError(decoded)
  THEN ParseResult(decoded, inst.apiSpec, reads, consulted, decoder)
  ELSE IF inst.validationEnabled /\ ValidateApiSpec(decoded) # ""
  THEN \* this.apiSpec was assigned before validateApiSpec raised
       ParseResult(Err("InvalidSpecification", << ValidateApiSpec(decoded) >>),
                   decoded, reads, consulted, decoder)
  ELSE ParseResult(decoded, decoded, reads, consulted, decoder)

\* lines 285-293: the choice of the format parser for the content obtained
Decoded(inst, list, content, reads, found) ==
  IF found = 0
  THEN ParseResult(Err("UnsupportedFormat", SupportedExtensions(list)),
                   inst.apiSpec, reads, list, "none")
  ELSE Validated(inst, FormatParse(list[found], content), reads,
                 SubSeq(list, 1, found), list[found])

ParseApiSpec(inst, registry, fs) ==
  IF CacheHit(inst.cacheEnabled, inst.apiSpec)
  THEN ParseResult(inst.apiSpec, inst.apiSpec, 0, << >>, "none")
  ELSE IF ~ContentAvailable(inst.sourceType)
  THEN IF inst.sourceType = "url"
       THEN ParseResult(Err("NotImplemented", << "url" >>), inst.apiSpec, 0, << >>, "none")
       ELSE ParseResult(Err("UnsupportedSourceType", << inst.sourceType >>),
                        inst.apiSpec, 0, << >>, "none")
  ELSE IF inst.sourceType = "file_path" /\ inst.source \notin DOMAIN fs
  THEN ParseResult(Err("ReadError", << "ENOENT" >>), inst.apiSpec, 1, << >>, "none")
  ELSE Decoded(inst, FormatParsersOf(inst, registry),
               IF inst.sourceType = "file_path" THEN fs[inst.source] ELSE inst.source,
               IF inst.sourceType = "file_path" THEN 1 ELSE 0,
               FindParser(FormatParsersOf(inst, registry), inst.source, inst.sourceType))

\* getApiTitle / getApiVersion on what parseApiSpec() gave
GetApiTitle(spec) == Prop(Prop(spec, "info"), "title")

GetApiVersion(spec) == Prop(Prop(spec, "info"), "version")

NoCall ==
  [ tick |-> 0, p |-> "none", op |-> "none", args |-> << >>, spec |-> Undefined,
    value |-> Undefined, reads |-> 0, consulted |-> << >>, decoder |-> "none" ]

NothingReturned == [ some |-> FALSE, value |-> Undefined ]

ParserInit ==
  /\ formatParsers = BuiltIn
  /\ parser = [ p \in Parsers |-> NoParser ]
  /\ files = InitialFiles
  /\ call = NoCall
  /\ returned = [ p \in Parsers |-> NothingReturned ]

\* ApiSpecParserFactory.createFromFile(filePath, options)
CreateFromFile(p, filePath, validationEnabled, cacheEnabled) ==
  /\ ~Constructed(p)
  /\ parser' = [ parser EXCEPT ![p] =
       NewParser(filePath, "file_path", TRUE, << >>, validationEnabled, cacheEnabled) ]
  /\ UNCHANGED << formatParsers, files, call, returned >>

\* ApiSpecParser.fromFile(filePath): createFromFile with the default options
FromFile(p, filePath) == CreateFromFile(p, filePath, TRUE, TRUE)

\* ApiSpecParserFactory.createFromContent(content, options)
CreateFromContent(p, content, validationEnabled, cacheEnabled) ==
  /\ ~Constructed(p)
  /\ parser' = [ parser EXCEPT ![p] =
       NewParser(content, "content_string", TRUE, << >>, validationEnabled, cacheEnabled) ]
  /\ UNCHANGED << formatParsers, files, call, returned >>

\* ApiSpecParserFactory.createFromUrl(url, options)
CreateFromUrl(p, url, validationEnabled, cacheEnabled) ==
  /\ ~Constructed(p)
  /\ parser' = [ parser EXCEPT ![p] =
       NewParser(url, "url", TRUE, << >>, validationEnabled, cacheEnabled) ]
  /\ UNCHANGED << formatParsers, files, call, returned >>

\* ApiSpecParserFactory.createWithCustomParsers(source, sourceType, customParsers)
\* with the default options: a new array, the registry followed by the customs
CreateWithCustomParsers(p, source, sourceType, customParsers) ==
  /\ ~Constructed(p)
  /\ parser' = [ parser EXCEPT ![p] =
       NewParser(source, sourceType, FALSE, formatParsers \o customParsers, TRUE, TRUE) ]
  /\ UNCHANGED << formatParsers, files, call, returned >>

\* ApiSpecParserFactory.registerFormatParser(parser)
RegisterFormatParser(fp) ==
  /\ Len(formatParsers) < Len(BuiltIn) + MaxRegistered
  /\ formatParsers' = Append(formatParsers, fp)
  /\ UNCHANGED << parser, files, call, returned >>

\* the fixture file is rewritten on disk
WriteFile(filePath, content) ==
  /\ files[filePath] # content
  /\ files' = [ files EXCEPT ![filePath] = content ]
  /\ UNCHANGED << formatParsers, parser, call, returned >>

\* ------------------------------------------------------------ accessors
\* Each accessor is given what its parseApiSpec() call returned.

\* getServers / getTags
GetServers(spec) == OrElse(Prop(spec, "servers"), EmptyArray)

GetTags(spec) == OrElse(Prop(spec, "tags"), EmptyArray)

\* getEndpointPaths: spec.paths ? Object.keys(spec.paths) : []
GetEndpointPaths(spec) ==
  LET paths == Prop(spec, "paths") IN
  IF IsError(paths) THEN paths
  ELSE IF Truthy(paths) THEN ObjectKeys(paths) ELSE EmptyArray

\* spec.paths[path] behind the guard !spec.paths || !spec.paths[path];
\* undefined when the guard returns early
PathItem(spec, endpoint) ==
  LET paths == Prop(spec, "paths") IN
  IF IsError(paths) THEN paths
  ELSE IF ~Truthy(paths) \/ ~Truthy(Prop(paths, endpoint)) THEN Undefined
  ELSE Prop(paths, endpoint)

\* spec.paths[path][method] behind the guard
\* !spec.paths || !spec.paths[path] || !spec.paths[path][method]
Operation(spec, endpoint, method) ==
  LET item == PathItem(spec, endpoint) IN
  IF IsError(item) THEN item
  ELSE IF item = Undefined \/ ~Truthy(Prop(item, method)) THEN Undefined
  ELSE Prop(item, method)

\* getEndpointMethods: every key of the path item
GetEndpointMethods(spec, endpoint) ==
  LET item == PathItem(spec, endpoint) IN
  IF IsError(item) THEN item
  ELSE IF item = Undefined THEN EmptyArray ELSE ObjectKeys(item)

\* the field of an operation, or `empty` when the guard returns early
OperationField(spec, endpoint, method, field, empty) ==
  LET operation == Operation(spec, endpoint, method) IN
  IF IsError(operation) THEN operation
  ELSE IF operation = Undefined THEN empty ELSE Prop(operation, field)

GetEndpointSummary(spec, endpoint, method) ==
  OperationField(spec, endpoint, method, "summary", Undefined)

GetEndpointDescription(spec, endpoint, method) ==
  OperationField(spec, endpoint, method, "description", Undefined)

GetEndpointParameters(spec, endpoint, method) ==
  OrElse(OperationField(spec, endpoint, method, "parameters", EmptyArray), EmptyArray)

GetEndpointResponses(spec, endpoint, method) ==
  OrElse(OperationField(spec, endpoint, method, "responses", EmptyObject), EmptyObject)

GetEndpointSecurity(spec, endpoint, method) ==
  OrElse(OperationField(spec, endpoint, method, "security", EmptyArray), EmptyArray)

\* spec.components?.schemas || {} and the accessors built on it
GetSchemas(spec) == OrElse(OptProp(Prop(spec, "components"), "schemas"), EmptyObject)

GetSchema(spec, schemaName) == Prop(GetSchemas(spec), schemaName)

GetSchemaProperties(spec, schemaName) ==
  OrElse(OptProp(GetSchema(spec, schemaName), "properties"), EmptyObject)

GetSecuritySchemes(spec) ==
  OrElse(OptProp(Prop(spec, "components"), "securitySchemes"), EmptyObject)

GetOAuthFlows(spec, schemeName) ==
  OrElse(OptProp(Prop(GetSecuritySchemes(spec), schemeName), "flows"), EmptyObject)

GetOAuthScopes(spec, schemeName, flowType) ==
  OrElse(OptProp(Prop(GetOAuthFlows(spec, schemeName), flowType), "scopes"), EmptyObject)

\* responses[responseCode] of getEndpointResponses(endpoint, method)
Response(spec, endpoint, method, responseCode) ==
  Prop(GetEndpointResponses(spec, endpoint, method), responseCode)

GetResponseHeaders(spec, endpoint, method, responseCode) ==
  OrElse(OptProp(Response(spec, endpoint, method, responseCode), "headers"), EmptyObject)

\* the mediaType parameter of getResponseSchema when the caller gives none
DefaultMediaType == "application/json"

GetResponseSchema(spec, endpoint, method, responseCode, mediaType) ==
  OrElse(OptProp(OptProp(OptProp(Response(spec, endpoint, method, responseCode),
                                 "content"), mediaType), "schema"),
         EmptyObject)

GetResponseDescription(spec, endpoint, method, responseCode) ==
  OptProp(Response(spec, endpoint, method, responseCode), "description")

GetResponseMediaTypes(spec, endpoint, method, responseCode) ==
  ObjectKeys(OrElse(OptProp(Response(spec, endpoint, method, responseCode), "content"),
                    EmptyObject))

\* ApiDataSeeder.getTestData on the parser that getApiSpecParser makes with
\* ApiSpecParser.fromFile: the object literal it returns, or the error that
\* the first failing accessor raises
InfoField(spec, field) == Prop(Prop(spec, "info"), field)

MethodEntry(spec, endpoint, method) ==
  Obj(<< KV("method", Str(method)),
         KV("summary", GetEndpointSummary(spec, endpoint, method)),
         KV("description", GetEndpointDescription(spec, endpoint, method)),
         KV("parameters", GetEndpointParameters(spec, endpoint, method)),
         KV("responses", GetEndpointResponses(spec, endpoint, method)),
         KV("security", GetEndpointSecurity(spec, endpoint, method)) >>)

EndpointEntry(spec, endpoint) ==
  LET methods == GetEndpointMethods(spec, endpoint).e IN
  Obj(<< KV("path", Str(endpoint)),
         KV("methods",
            Arr([ j \in 1..Len(methods) |-> MethodEntry(spec, endpoint, methods[j].v) ])) >>)

GetTestData(spec) ==
  IF IsError(GetApiTitle(spec)) THEN GetApiTitle(spec)
  ELSE
    LET endpointPaths == GetEndpointPaths(spec).e IN
    Obj(<< KV("apiTitle", GetApiTitle(spec)),
           KV("apiVersion", GetApiVersion(spec)),
           KV("apiDescription", InfoField(spec, "description")),
           KV("termsOfService", InfoField(spec, "termsOfService")),
           KV("contactInfo", InfoField(spec, "contact")),
           KV("licenseInfo", InfoField(spec, "license")),
           KV("servers", GetServers(spec)),
           KV("tags", GetTags(spec)),
           KV("endpointPaths", GetEndpointPaths(spec)),
           KV("endpoints",
              Arr([ i \in 1..Len(endpointPaths) |->
                      EndpointEntry(spec, endpointPaths[i].v) ])),
           KV("schemas", GetSchemas(spec)),
           KV("securitySchemes", GetSecuritySchemes(spec)) >>)

\* what the operation called `op` gives for its arguments, from what its
\* parseApiSpec() call returned
Access(op, args, spec) ==
  CASE op = "parseApiSpec"           -> spec
    [] op = "getApiTitle"            -> GetApiTitle(spec)
    [] op = "getApiVersion"          -> GetApiVersion(spec)
    [] op = "getTestData"            -> GetTestData(spec)
    [] op = "getServers"             -> GetServers(spec)
    [] op = "getTags"                -> GetTags(spec)
    [] op = "getEndpointPaths"       -> GetEndpointPaths(spec)
    [] op = "getSchemas"             -> GetSchemas(spec)
    [] op = "getSecuritySchemes"     -> GetSecuritySchemes(spec)
    [] op = "getEndpointMethods"     -> GetEndpointMethods(spec, args[1])
    [] op = "getEndpointSummary"     -> GetEndpointSummary(spec, args[1], args[2])
    [] op = "getEndpointDescription" -> GetEndpointDescription(spec, args[1], args[2])
    [] op = "getEndpointParameters"  -> GetEndpointParameters(spec, args[1], args[2])
    [] op = "getEndpointResponses"   -> GetEndpointResponses(spec, args[1], args[2])
    [] op = "getEndpointSecurity"    -> GetEndpointSecurity(spec, args[1], args[2])
    [] op = "getSchema"              -> GetSchema(spec, args[1])
    [] op = "getSchemaProperties"    -> GetSchemaProperties(spec, args[1])
    [] op = "getOAuthFlows"          -> GetOAuthFlows(spec, args[1])
    [] op = "getOAuthScopes"         -> GetOAuthScopes(spec, args[1], args[2])
    [] op = "getResponseHeaders"     -> GetResponseHeaders(spec, args[1], args[2], args[3])
    [] op = "getResponseDescription" -> GetResponseDescription(spec, args[1], args[2], args[3])
    [] op = "getResponseMediaTypes"  -> GetResponseMediaTypes(spec, args[1], args[2], args[3])
    [] op = "getResponseSchema"      ->
         GetResponseSchema(spec, args[1], args[2], args[3],
                           IF Len(args) = 4 THEN args[4] ELSE DefaultMediaType)

\* a call of parseApiSpec() or of an accessor on instance p with the
\* arguments `args`, r being what its parseApiSpec() call does: `value` is
\* what the caller gets
Completed(p, op, args, r) ==
  /\ parser' = [ parser EXCEPT ![p].apiSpec = r.apiSpec ]
  /\ call' = [ tick |-> 1 - call.tick, p |-> p, op |-> op, args |-> args,
               spec |-> r.value, value |-> Access(op, args, r.value), reads |-> r.reads,
               consulted |-> r.consulted, decoder |-> r.decoder ]
  /\ returned' = IF IsError(r.value) THEN returned
                 ELSE [ returned EXCEPT ![p] = [ some |-> TRUE, value |-> r.value ] ]
  /\ UNCHANGED << formatParsers, files >>

InvokeWith(p, op, args) ==
  /\ Constructed(p)
  /\ Completed(p, op, args, ParseApiSpec(parser[p], formatParsers, files))

Invoke(p, op) == InvokeWith(p, op, << >>)

ParseApiSpecCall(p) == Invoke(p, "parseApiSpec")

GetApiTitleCall(p) == Invoke(p, "getApiTitle")

GetApiVersionCall(p) == Invoke(p, "getApiVersion")

\* one parser, constructed by any factory method from any source, over the
\* registry and a fixed file system
ParserNext ==
  \/ /\ \E p \in MainParsers, f \in FilePaths, v \in BOOLEAN, c \in BOOLEAN :
          CreateFromFile(p, f, v, c)
     /\ UNCHANGED << vars, runVars, utilVars >>
  \/ /\ \E p \in MainParsers, s \in ContentSources, v \in BOOLEAN, c \in BOOLEAN :
          CreateFromContent(p, s, v, c)
     /\ UNCHANGED << vars, runVars, utilVars >>
  \/ /\ \E p \in MainParsers, v \in BOOLEAN, c \in BOOLEAN : CreateFromUrl(p, UrlSource, v, c)
     /\ UNCHANGED << vars, runVars, utilVars >>
  \/ /\ \E p \in MainParsers, s \in CustomSources, l \in CustomLists :
          CreateWithCustomParsers(p, s[1], s[2], l)
     /\ UNCHANGED << vars, runVars, utilVars >>
  \/ /\ \E fp \in Custom : RegisterFormatParser(fp)
     /\ UNCHANGED << vars, runVars, utilVars >>
  \/ /\ \E p \in MainParsers : ParseApiSpecCall(p)
     /\ UNCHANGED << vars, runVars, utilVars >>
  \/ /\ \E p \in MainParsers : GetApiTitleCall(p)
     /\ UNCHANGED << vars, runVars, utilVars >>
  \/ /\ \E p \in MainParsers : GetApiVersionCall(p)
     /\ UNCHANGED << vars, runVars, utilVars >>

\* the parser alone: no cleanup in progress, no test hooks
ParserSpecInit == Init /\ RunIdle /\ ParserInit /\ UtilIdle

ParserSpec == ParserSpecInit /\ [][ParserNext]_allVars

\* parsers over a fixture file that is rewritten between the calls
CacheNext ==
  \/ /\ \/ \E p \in MainParsers, f \in FixturePaths, v \in BOOLEAN, c \in BOOLEAN :
             CreateFromFile(p, f, v, c)
        \/ \E p \in Parsers \ MainParsers, f \in FixturePaths : FromFile(p, f)
     /\ UNCHANGED << vars, runVars, utilVars >>
  \/ /\ \E f \in FixturePaths, t \in FixtureTexts : WriteFile(f, t)
     /\ UNCHANGED << vars, runVars, utilVars >>
  \/ /\ \E p \in Parsers : ParseApiSpecCall(p)
     /\ UNCHANGED << vars, runVars, utilVars >>
  \/ /\ \E p \in Parsers : GetApiTitleCall(p)
     /\ UNCHANGED << vars, runVars, utilVars >>

CacheSpec == ParserSpecInit /\ [][CacheNext]_allVars

\* ------------------------------------------------------- accessor calls
\* the arguments the accessors are called with
AccessPaths    == {"/pets", "/hello", "/missing"}
AccessMethods  == {"get", "put", "parameters"}
ResponseCodes  == {"200", "404", "500"}
MediaTypes     == {"application/xml", "application/json", "text/plain"}
SchemaNames    == {"Pet", "Missing", "constructor"}
SchemeNames    == {"oauth", "missing", "toString"}
FlowTypes      == {"implicit", "password"}

SectionAccessors   == {"getServers", "getTags", "getEndpointPaths", "getSchemas",
                       "getSecuritySchemes"}
OperationAccessors == {"getEndpointSummary", "getEndpointDescription",
                       "getEndpointParameters", "getEndpointResponses",
                       "getEndpointSecurity"}
SchemaAccessors    == {"getSchema", "getSchemaProperties"}
ResponseAccessors  == {"getResponseHeaders", "getResponseDescription",
                       "getResponseMediaTypes", "getResponseSchema"}
Accessors ==
  SectionAccessors \cup OperationAccessors \cup SchemaAccessors \cup ResponseAccessors
    \cup {"getEndpointMethods", "getOAuthFlows", "getOAuthScopes"}

\* a call of accessor `op` with `args` on instance p.  What an accessor gives
\* is a function of the document the instance parses, so each instance is
\* asked once here; repeated calls are the subject of the cache above
AccessorCall(p, op, args) ==
  /\ op \in Accessors
  /\ call.op = "none"
  /\ InvokeWith(p, op, args)

SectionCall(p, op) == op \in SectionAccessors /\ AccessorCall(p, op, << >>)

MethodsCall(p, endpoint) == AccessorCall(p, "getEndpointMethods", << endpoint >>)

OperationCall(p, op, endpoint, method) ==
  op \in OperationAccessors /\ AccessorCall(p, op, << endpoint, method >>)

SchemaCall(p, op, schemaName) ==
  op \in SchemaAccessors /\ AccessorCall(p, op, << schemaName >>)

OAuthFlowsCall(p, schemeName) == AccessorCall(p, "getOAuthFlows", << schemeName >>)

OAuthScopesCall(p, schemeName, flowType) ==
  AccessorCall(p, "getOAuthScopes", << schemeName, flowType >>)

ResponseCall(p, op, endpoint, method, responseCode) ==
  op \in ResponseAccessors /\ AccessorCall(p, op, << endpoint, method, responseCode >>)

\* getResponseSchema(endpoint, method, responseCode, mediaType)
ResponseSchemaCall(p, endpoint, method, responseCode, mediaType) ==
  AccessorCall(p, "getResponseSchema", << endpoint, method, responseCode, mediaType >>)

\* getTestData(testDataFile) on an instance that fromFile made
GetTestDataCall(p) ==
  /\ parser[p].sourceType = "file_path"
  /\ parser[p].validationEnabled /\ parser[p].cacheEnabled
  /\ call.op = "none"
  /\ Invoke(p, "getTestData")

\* an empty YAML file and a test-data file, and the inline sources the
\* accessors are exercised on: the document with every section, a document
\* with the info section only
PathBlank == << "blank", ".", "yaml" >>

PathPets == << "test-data", "/", "pets", ".", "json" >>

AccessorFiles == [ f \in { PathBlank, PathPets } |->
                     IF f = PathBlank THEN TextEmpty ELSE TextPets ]

AccessorContents == { TextPets, TextJson }

AccessorInit ==
  /\ formatParsers = BuiltIn
  /\ parser = [ p \in Parsers |-> NoParser ]
  /\ files = AccessorFiles
  /\ call = NoCall
  /\ returned = [ p \in Parsers |-> NothingReturned ]

AccessorNext ==
  \/ /\ \E p \in MainParsers, s \in AccessorContents, v \in BOOLEAN, c \in BOOLEAN :
          CreateFromContent(p, s, v, c)
     /\ UNCHANGED << vars, runVars, utilVars >>
  \/ /\ \/ \E p \in MainParsers, v \in BOOLEAN, c \in BOOLEAN :
             CreateFromFile(p, PathBlank, v, c)
        \/ \E p \in MainParsers : FromFile(p, PathPets)
     /\ UNCHANGED << vars, runVars, utilVars >>
  \/ /\ \E p \in MainParsers : GetTestDataCall(p)
     /\ UNCHANGED << vars, runVars, utilVars >>
  \/ /\ \E p \in MainParsers, op \in SectionAccessors : SectionCall(p, op)
     /\ UNCHANGED << vars, runVars, utilVars >>
  \/ /\ \E p \in MainParsers, endpoint \in AccessPaths : MethodsCall(p, endpoint)
     /\ UNCHANGED << vars, runVars, utilVars >>
  \/ /\ \E p \in MainParsers, op \in OperationAccessors,
          endpoint \in AccessPaths, method \in AccessMethods :
          OperationCall(p, op, endpoint, method)
     /\ UNCHANGED << vars, runVars, utilVars >>
  \/ /\ \E p \in MainParsers, op \in SchemaAccessors, n \in SchemaNames :
          SchemaCall(p, op, n)
     /\ UNCHANGED << vars, runVars, utilVars >>
  \/ /\ \E p \in MainParsers, n \in SchemeNames : OAuthFlowsCall(p, n)
     /\ UNCHANGED << vars, runVars, utilVars >>
  \/ /\ \E p \in MainParsers, n \in SchemeNames, f \in FlowTypes : OAuthScopesCall(p, n, f)
     /\ UNCHANGED << vars, runVars, utilVars >>
  \/ /\ \E p \in MainParsers, op \in ResponseAccessors, endpoint \in AccessPaths,
          method \in AccessMethods, code \in ResponseCodes :
          ResponseCall(p, op, endpoint, method, code)
     /\ UNCHANGED << vars, runVars, utilVars >>
  \/ /\ \E p \in MainParsers, endpoint \in AccessPaths, method \in AccessMethods,
          code \in ResponseCodes, m \in MediaTypes :
          ResponseSchemaCall(p, endpoint, method, code, m)
     /\ UNCHANGED << vars, runVars, utilVars >>

AccessorSpecInit == Init /\ RunIdle /\ AccessorInit /\ UtilIdle

AccessorSpec == AccessorSpecInit /\ [][AccessorNext]_allVars

\* ----------------------------------------------------- parser properties
\* the document has no (non-empty) info.<field>
Lacks(spec, field) == ~Truthy(OptProp(OptProp(spec, "info"), field))

Called(p) == call.p = p /\ call.op # "none"

\* C12 (as stated): with validation enabled a document that lacks info.title
\* or info.version is never handed out: whatever a parseApiSpec() call on the
\* instance gives, to its caller or to an accessor, is an error or a
\* document that has both fields, on the first call and on every later one.
C12_InvalidNeverHandedOut ==
  \A p \in Parsers :
    Called(p) /\ parser[p].validationEnabled /\ ~IsError(call.spec)
      => ~Lacks(call.spec, "title") /\ ~Lacks(call.spec, "version")


\* the call being made reaches the choice of a format parser: nothing is served
\* from the cache and the content is at hand (inline, or a file that exists)
ReachesSelection(inst, fs) ==
  /\ ~CacheHit(inst.cacheEnabled, inst.apiSpec)
  /\ \/ inst.sourceType = "content_string"
     \/ inst.sourceType = "file_path" /\ inst.source \in DOMAIN fs

\* the positions of the parsers of `list` that accept the source
Accepting(list, inst) ==
  { i \in 1..Len(list) : CanParse(list[i], inst.source, inst.sourceType) }

\* C13: a call that reaches the choice of a format parser decodes with the
\* first parser of the instance's list whose canParse accepts the source, the
\* list being the built-in YAML and JSON parsers followed by the custom ones
\* in the order they were added (registerFormatParser appends); when no
\* parser accepts, the call fails with the unsupported-format error that lists
\* the extensions of all the parsers of the list, and nothing is decoded.
C13_FirstMatchingParser ==
  [][ /\ formatParsers' # formatParsers =>
           \E fp \in Custom : formatParsers' = formatParsers \o << fp >>
      /\ call'.tick # call.tick =>
           LET inst == parser[call'.p]
               list == FormatParsersOf(inst, formatParsers)
               hits == Accepting(list, inst)
           IN  ReachesSelection(inst, files) =>
                 /\ SubSeq(list, 1, 2) = << "yaml", "json" >>
                 /\ hits # {} =>
                      /\ call'.decoder = list[SetMin(hits)]
                      /\ call'.consulted = SubSeq(list, 1, SetMin(hits))
                      /\ call'.spec = FormatParse(call'.decoder,
                                         IF inst.sourceType = "file_path"
                                         THEN files[inst.source] ELSE inst.source)
                           \/ call'.spec.t = "error"
                 /\ hits = {} =>
                      /\ call'.decoder = "none"
                      /\ call'.spec = Err("UnsupportedFormat", SupportedExtensions(list))
                      /\ \A i \in 1..Len(list) :
                           \E e \in 1..Len(call'.spec.detail) :
                             call'.spec.detail[e] \in
                               { GetSupportedExtensions(list[i])[k] :
                                   k \in 1..Len(GetSupportedExtensions(list[i])) } ]_allVars

\* two parsers of the list accept the source and the earlier one has decoded
C13_Witness ==
  /\ Called("p1")
  /\ call.decoder # "none"
  /\ \E i, j \in Accepting(FormatParsersOf(parser["p1"], formatParsers), parser["p1"]) :
       /\ i < j
       /\ FormatParsersOf(parser["p1"], formatParsers)[i] = call.decoder
       /\ FormatParsersOf(parser["p1"], formatParsers)[j] # call.decoder


\* C14: an instance whose source type is URL never produces a specification:
\* every parseApiSpec() or accessor call on it fails with the "not yet
\* implemented" error, reads no file, and neither consults nor invokes a
\* format parser; the instance never holds a parsed document.
C14_UrlNeverProduces ==
  \A p \in Parsers :
    Constructed(p) /\ parser[p].sourceType = "url" =>
      /\ parser[p].apiSpec = JsNull
      /\ ~returned[p].some
      /\ Called(p) =>
           /\ call.spec = Err("NotImplemented", << "url" >>)
           /\ IsError(call.value)
           /\ call.reads = 0
           /\ call.consulted = << >>
           /\ call.decoder = "none"

\* an accessor has been called on a URL instance
C14_Witness ==
  /\ Called("p1")
  /\ parser["p1"].sourceType = "url"
  /\ call.op = "getApiTitle"


\* C15 (as stated): with validation disabled, when parseApiSpec() gives a
\* document in which info.title (info.version) is absent, whether or not the
\* info section itself is present, getApiTitle() (getApiVersion()) returns
\* undefined and does not raise.
C15_AbsentFieldUndefined ==
  \A p \in Parsers :
    Called(p) /\ ~parser[p].validationEnabled /\ IsTree(call.spec) =>
      /\ call.op = "getApiTitle" /\ Lacks(call.spec, "title") => call.value = Undefined
      /\ call.op = "getApiVersion" /\ Lacks(call.spec, "version") => call.value = Undefined


\* the keys leading to what accessor `op` reads for the arguments `args`
Target(op, args) ==
  CASE op = "getServers"             -> << "servers" >>
    [] op = "getTags"                -> << "tags" >>
    [] op = "getEndpointPaths"       -> << "paths" >>
    [] op = "getSchemas"             -> << "components", "schemas" >>
    [] op = "getSecuritySchemes"     -> << "components", "securitySchemes" >>
    [] op = "getEndpointMethods"     -> << "paths", args[1] >>
    [] op = "getEndpointSummary"     -> << "paths", args[1], args[2], "summary" >>
    [] op = "getEndpointDescription" -> << "paths", args[1], args[2], "description" >>
    [] op = "getEndpointParameters"  -> << "paths", args[1], args[2], "parameters" >>
    [] op = "getEndpointResponses"   -> << "paths", args[1], args[2], "responses" >>
    [] op = "getEndpointSecurity"    -> << "paths", args[1], args[2], "security" >>
    [] op = "getSchema"              -> << "components", "schemas", args[1] >>
    [] op = "getSchemaProperties"    -> << "components", "schemas", args[1], "properties" >>
    [] op = "getOAuthFlows"          -> << "components", "securitySchemes", args[1], "flows" >>
    [] op = "getOAuthScopes"         ->
         << "components", "securitySchemes", args[1], "flows", args[2], "scopes" >>
    [] op = "getResponseHeaders"     ->
         << "paths", args[1], args[2], "responses", args[3], "headers" >>
    [] op = "getResponseDescription" ->
         << "paths", args[1], args[2], "responses", args[3], "description" >>
    [] op = "getResponseMediaTypes"  ->
         << "paths", args[1], args[2], "responses", args[3], "content" >>
    [] op = "getResponseSchema"      ->
         << "paths", args[1], args[2], "responses", args[3], "content",
            IF Len(args) = 4 THEN args[4] ELSE DefaultMediaType, "schema" >>

\* the document has an entry of its own under every key of `keys` in turn
RECURSIVE Present(_, _)
Present(doc, keys) ==
  \/ keys = << >>
  \/ /\ HasKey(doc, Head(keys))
     /\ Present(doc.e[CHOOSE i \in 1..Len(doc.e) : doc.e[i].k = Head(keys)].v, Tail(keys))

EmptyValues == { Undefined, EmptyArray, EmptyObject }

\* C16 (as stated): an accessor called on an instance whose parseApiSpec()
\* succeeds never raises, and when the section or the path, method, status
\* code, schema name, security-scheme name or flow type it is asked about is
\* not in the document it returns undefined, [] or {}.
C16_AccessorsTotal ==
  \A p \in Parsers :
    Called(p) /\ call.op \in Accessors /\ ~IsError(call.spec) =>
      /\ ~IsError(call.value)
      /\ ~Present(call.spec, Target(call.op, call.args)) => call.value \in EmptyValues


\* the media types of a response, as getResponseMediaTypes reports them
MediaTypesOf(spec, args) ==
  LET keys == GetResponseMediaTypes(spec, args[1], args[2], args[3])
  IN  [ i \in 1..Len(keys.e) |-> keys.e[i].v ]

\* C17 (as stated): getResponseSchema called without a media type on a
\* response that offers media types returns the schema of application/json
\* when the response offers it and otherwise the schema of the first media
\* type the response offers.
C17_DefaultMediaType ==
  \A p \in Parsers :
    Called(p) /\ call.op = "getResponseSchema" /\ Len(call.args) = 3 /\ IsTree(call.spec) =>
      LET offered  == MediaTypesOf(call.spec, call.args)
          hasJson  == \E i \in 1..Len(offered) : offered[i] = "application/json"
          resolved == IF hasJson THEN "application/json" ELSE offered[1]
      IN  offered # << >> =>
            call.value = GetResponseSchema(call.spec, call.args[1], call.args[2],
                                           call.args[3], resolved)


\* the parser parseApiSpec() picks for the instance, "none" if no parser accepts
Selected(inst, registry) ==
  LET list  == FormatParsersOf(inst, registry)
      found == FindParser(list, inst.source, inst.sourceType)
  IN  IF found = 0 THEN "none" ELSE list[found]

\* C18 (as stated): for an instance over the built-in parsers, a file path
\* ending in .yaml or .yml selects the YAML parser and one ending in .json the
\* JSON parser; inline content that is a valid JSON object document selects
\* the JSON parser and inline content that is a valid YAML document (and not
\* JSON) selects the YAML parser.
C18_CorrespondingParser ==
  \A p \in Parsers :
    Constructed(p) /\ FormatParsersOf(parser[p], formatParsers) = BuiltIn =>
      LET inst == parser[p]
          ext  == ToLowerCase(ExtName(inst.source))
          sel  == Selected(inst, formatParsers)
      IN  /\ inst.sourceType = "file_path" =>
               /\ ext \in { << ".", "yaml" >>, << ".", "yml" >> } => sel = "yaml"
               /\ ext = << ".", "json" >> => sel = "json"
          /\ inst.sourceType = "content_string" =>
               /\ inst.source \in JsonDocuments => sel = "json"
               /\ inst.source \in YamlDocuments => sel = "yaml"


\* the instance holds a specification that an earlier parseApiSpec() returned
HasReturned(p) == returned[p].some /\ IsTree(returned[p].value)

\* C19: with caching enabled, once parseApiSpec() has returned a
\* specification on an instance, every later parseApiSpec() or accessor call
\* on that instance gets that same result, with no file read and no decoding;
\* with caching disabled every call reads the file and decodes it anew; and
\* what a call gets is never another instance's result: it is the instance's
\* own earlier result or what its own source decodes to at that moment.
C19_CachePerInstance ==
  [][ call'.tick # call.tick =>
        LET p    == call'.p
            inst == parser[p]
            now  == FormatParse(call'.decoder, files[inst.source])
        IN  /\ inst.cacheEnabled /\ HasReturned(p) =>
                 /\ call'.spec = returned[p].value
                 /\ call'.reads = 0
                 /\ call'.decoder = "none"
                 /\ returned'[p] = returned[p]
            /\ ~inst.cacheEnabled =>
                 /\ call'.reads = 1
                 /\ call'.decoder # "none"
                 /\ IsError(call'.spec) \/ call'.spec = now
            /\ ~HasReturned(p) /\ ~IsError(call'.spec) /\ call'.decoder # "none" =>
                 call'.spec = now ]_allVars

\* both instances have returned a specification, the two differ, and the
\* last call was served from the cache
C19_Witness ==
  /\ HasReturned("p1") /\ HasReturned("p2")
  /\ returned["p1"].value # returned["p2"].value
  /\ parser["p1"].cacheEnabled
  /\ Called("p1") /\ call.reads = 0 /\ call.spec = returned["p1"].value
  /\ files[parser["p1"].source] # TextEmpty
  /\ YamlLoad(files[parser["p1"].source]) # returned["p1"].value


\* the operation keys of an OpenAPI path item
HttpMethods == {"get", "put", "post", "delete", "options", "head", "patch", "trace"}

\* the keys of a mapping, in document order
KeysOf(o) == [ i \in 1..Len(o.e) |-> o.e[i].k ]

\* C20 (as stated): the extraction has endpointPaths equal to the keys of
\* paths in document order and one endpoints entry per path in that order;
\* the methods of each entry are exactly the HTTP methods present under the
\* path, one entry each and none for anything else, and each carries what the
\* accessors return for the (path, method) pair.
C20_Extraction ==
  \A p \in Parsers :
    Called(p) /\ call.op = "getTestData" /\ ~IsError(call.value)
      /\ HasKey(call.spec, "paths") =>
      LET paths     == Prop(call.spec, "paths")
          names     == Prop(call.value, "endpointPaths").e
          endpoints == Prop(call.value, "endpoints").e
      IN  /\ [ i \in 1..Len(names) |-> names[i].v ] = KeysOf(paths)
          /\ Len(endpoints) = Len(names)
          /\ \A i \in 1..Len(endpoints) :
               LET endpoint == Prop(endpoints[i], "path").v
                   methods  == Prop(endpoints[i], "methods").e
                   present  == { k \in HttpMethods : HasKey(Prop(paths, endpoint), k) }
               IN  /\ endpoint = names[i].v
                   /\ { Prop(methods[j], "method").v : j \in 1..Len(methods) } = present
                   /\ Len(methods) = Cardinality(present)
                   /\ \A j \in 1..Len(methods) :
                        methods[j] = MethodEntry(call.spec, endpoint,
                                                 Prop(methods[j], "method").v)


\* entry recorded for id in the observer list of h
Recorded(list, id) == list[FindIndex(list, id)]

\* C21: a definition tracked without a per-call auth token (observed creation
\* response, or trackApiDefinitionManually() without authToken) is recorded
\* with the Bearer token of the most recent captured API request (once a
\* request carrying one has been captured).
C21_TokenOfLatestRequest ==
  [][ \A h \in Trackers, id \in Ids, pv \in Pvs :
        ( /\ capturedAuthToken # ""
          /\ TrackApiDefinitionManually(h, id, pv, "") \/ HandleResponse(h, id, pv) ) =>
          Recorded(trackedApiDefinitions'[h], id).authToken = capturedAuthToken ]_vars

\* the observed half of C21 alone
ObservedTokenOfLatestRequest ==
  [][ \A h \in Trackers, id \in Ids, pv \in Pvs :
        HandleResponse(h, id, pv) =>
          Recorded(trackedApiDefinitions'[h], id).authToken = capturedAuthToken ]_vars

\* ======================================================================
\* ApiResponseObserver: the observers list, the page listeners, and the
\* temporary observers of waitForApiCreationResponse(), for one ApiHelper
\* ======================================================================
MaxWaits     == 2      \* waitForApiCreationResponse() calls
MaxListeners == 2      \* startListening() calls that register handlers
MaxResponses == 2      \* responses arriving on the page

Observed == "h1"                   \* the ApiHelper whose observer is modelled
Waits    == 1..MaxWaits

Creation == [ kind |-> "creation", wait |-> 0 ]     \* this.creationObserver
Logger   == [ kind |-> "logger", wait |-> 0 ]       \* an ApiResponseLogger
Faulty   == [ kind |-> "faulty", wait |-> 0 ]       \* an observer whose onApiResponse raises
Temp(w)  == [ kind |-> "temp", wait |-> w ]         \* tempObserver of call w
AllObservers == { Creation, Logger, Faulty } \cup { Temp(w) : w \in Waits }

\* responses passing isApiResponse: a successful creation, or any other
CreationResponse(id, pv) == [ type |-> "creation", id |-> id, pv |-> pv ]
FetchResponse == [ type |-> "fetch", id |-> "", pv |-> "" ]
Responses == { CreationResponse(id, "v1") : id \in Ids } \cup { FetchResponse }

\* addObserver: push unless already included
AddObserver(list, o) == IF o \in Range(list) THEN list ELSE Append(list, o)

\* removeObserver: splice(indexOf(o), 1)
RemoveObserver(list, o) ==
  IF o \in Range(list)
  THEN LET index == CHOOSE i \in 1..Len(list) :
                      list[i] = o /\ \A j \in 1..(i-1) : list[j] # o
       IN  SubSeq(list, 1, index - 1) \o SubSeq(list, index + 1, Len(list))
  ELSE list

\* resolve() of a promise: a settled promise keeps its value
Resolve(p, value) == IF p = "pending" THEN value ELSE p

\* everything one notifyObservers run can change
Notification(obs, tracked, ids, pv, tok, prom, tim, done) ==
  [ observers |-> obs, tracked |-> tracked, ids |-> ids, pv |-> pv, tok |-> tok,
    promise |-> prom, timer |-> tim, notified |-> done ]

\* ApiCreationObserver.onApiResponse
CreationOnApiResponse(st, resp, captured) ==
  IF resp.type = "creation"
  THEN [ st EXCEPT !.tracked = ManualTrack(@, Definition(resp.id, resp.pv, captured)) ]
  ELSE st

\* tempObserver.onApiResponse of call w
TempOnApiResponse(st, w, resp, captured) ==
  IF resp.type = "creation"
  THEN [ st EXCEPT !.timer[w] = FALSE,
                   !.observers = RemoveObserver(@, Temp(w)),
                   !.ids = TrackApiDefinition(@, resp.id),
                   !.pv = resp.pv,
                   !.tok = IF captured # "" THEN captured ELSE @,
                   !.promise[w] = Resolve(@, resp.id) ]
  ELSE st

\* the forEach callback: onApiResponse inside try, onError inside catch (the
\* faulty observer raises and its onError does nothing)
OnApiResponse(o, st, resp, captured) ==
  IF o.kind = "creation" THEN CreationOnApiResponse(st, resp, captured)
  ELSE IF o.kind = "temp" THEN TempOnApiResponse(st, o.wait, resp, captured)
  ELSE st

Invoked(st, o) == [ st EXCEPT !.notified = Append(@, o) ]

\* Array.prototype.forEach: indices 1..len with len read once before the
\* loop; an index that the array no longer has is passed over
RECURSIVE ForEach(_, _, _, _, _)
ForEach(st, k, len, resp, captured) ==
  IF k > len THEN st
  ELSE IF k > Len(st.observers) THEN ForEach(st, k + 1, len, resp, captured)
  ELSE ForEach(OnApiResponse(st.observers[k], Invoked(st, st.observers[k]), resp, captured),
               k + 1, len, resp, captured)

NotifyObservers(st, resp, captured) == ForEach(st, 1, Len(st.observers), resp, captured)

\* startListening / stopListening. page.off() is handed a fresh
\* handleResponse.bind(this), a function the page never registered, so it
\* removes nothing: the handler pairs registered by page.on() stay
ListeningAfterStart(flag) == TRUE

ListenersAfterStart(flag, n) == IF flag THEN n ELSE n + 1

ListeningAfterStop(flag) == FALSE

ListenersAfterStop(flag, n) == n

\* lifecycle variables no observer action touches
cleanupVars == << cleanupInProgress, cleanupCompleted, waiting, pc, helper, path,
                  callLocals, ret, request, sent, gets, lastTracked, nTracks,
                  histVars >>

NoDeliveries == [ o \in AllObservers |-> 0 ]

ObserverInit ==
  /\ observers = << Creation >>
  /\ listeners = 0
  /\ promise = [ w \in Waits |-> "none" ]
  /\ timer = [ w \in Waits |-> FALSE ]
  /\ inflight = << >>
  /\ registered = << >>
  /\ notified = << >>
  /\ delivered = NoDeliveries
  /\ nResponses = 0

\* getResponseObserver().startListening()
StartListening ==
  /\ ~isListening[Observed]
  /\ listeners < MaxListeners
  /\ isListening' = [ isListening EXCEPT ![Observed] = ListeningAfterStart(@) ]
  /\ listeners' = ListenersAfterStart(isListening[Observed], listeners)
  /\ UNCHANGED << trackVars, capturedAuthToken, cleanupVars, observers, promise,
                  timer, inflight, registered, notified, delivered, nResponses >>

\* getResponseObserver().stopListening()
StopListening ==
  /\ isListening[Observed]
  /\ isListening' = [ isListening EXCEPT ![Observed] = ListeningAfterStop(@) ]
  /\ listeners' = ListenersAfterStop(isListening[Observed], listeners)
  /\ UNCHANGED << trackVars, capturedAuthToken, cleanupVars, observers, promise,
                  timer, inflight, registered, notified, delivered, nResponses >>

\* getResponseObserver().addObserver(o) by the caller
AddObserverCall(o) ==
  /\ o \notin Range(observers)
  /\ observers' = AddObserver(observers, o)
  /\ UNCHANGED << vars, listeners, promise, timer, inflight, registered,
                  notified, delivered, nResponses >>

\* call w of waitForApiCreationResponse(), up to the returned promise
WaitForApiCreationResponseCall(w) ==
  /\ promise[w] = "none"
  /\ \A v \in Waits : v < w => promise[v] # "none"
  /\ isListening[Observed] \/ listeners < MaxListeners
  /\ isListening' = [ isListening EXCEPT ![Observed] = ListeningAfterStart(@) ]
  /\ listeners' = ListenersAfterStart(isListening[Observed], listeners)
  /\ timer' = [ timer EXCEPT ![w] = TRUE ]
  /\ promise' = [ promise EXCEPT ![w] = "pending" ]
  /\ observers' = AddObserver(observers, Temp(w))
  /\ UNCHANGED << trackVars, capturedAuthToken, cleanupVars, inflight,
                  registered, notified, delivered, nResponses >>

\* the setTimeout callback of call w
TimeoutFires(w) ==
  /\ timer[w]
  /\ timer' = [ timer EXCEPT ![w] = FALSE ]
  /\ isListening' = [ isListening EXCEPT ![Observed] =
                        IF @ THEN ListeningAfterStop(@) ELSE @ ]
  /\ listeners' = IF isListening[Observed]
                  THEN ListenersAfterStop(isListening[Observed], listeners)
                  ELSE listeners
  /\ promise' = [ promise EXCEPT ![w] = Resolve(@, "null") ]
  /\ UNCHANGED << trackVars, capturedAuthToken, cleanupVars, observers, inflight,
                  registered, notified, delivered, nResponses >>

\* the page emits 'request' for an API request with `Authorization: Bearer
\* tok`: every registered handleRequest stores the token
RequestArrives(tok) ==
  /\ listeners > 0
  /\ capturedAuthToken # tok
  /\ capturedAuthToken' = tok
  /\ UNCHANGED << trackVars, isListening, cleanupVars, observerVars >>

\* the page emits 'response': every registered handleResponse starts and
\* suspends at `await response.json()`
ResponseArrives(resp) ==
  /\ listeners > 0
  /\ inflight = << >>
  /\ nResponses < MaxResponses
  /\ nResponses' = nResponses + 1
  /\ inflight' = << [ resp |-> resp, left |-> listeners ] >>
  /\ delivered' = NoDeliveries
  /\ UNCHANGED << vars, observers, listeners, promise, timer, registered, notified >>

Occurrences(list, o) == Cardinality({ i \in 1..Len(list) : list[i] = o })

\* the state after one notifyObservers run
Deliver(st) ==
  /\ observers' = st.observers
  /\ trackedApiDefinitions' = [ trackedApiDefinitions EXCEPT ![Observed] = st.tracked ]
  /\ globalApiDefinitionIds' = st.ids
  /\ globalProjectDocumentVersionId' = st.pv
  /\ globalAuthToken' = st.tok
  /\ promise' = st.promise
  /\ timer' = st.timer
  /\ notified' = st.notified
  /\ delivered' = [ o \in AllObservers |-> delivered[o] + Occurrences(st.notified, o) ]

\* one handleResponse invocation resumes and runs notifyObservers
HandleResponseResumes ==
  /\ inflight # << >>
  /\ registered' = observers
  /\ Deliver(NotifyObservers(
       Notification(observers, trackedApiDefinitions[Observed],
                    globalApiDefinitionIds, globalProjectDocumentVersionId,
                    globalAuthToken, promise, timer, << >>),
       inflight[1].resp, capturedAuthToken))
  /\ inflight' = IF inflight[1].left = 1 THEN << >>
                 ELSE << [ inflight[1] EXCEPT !.left = @ - 1 ] >>
  /\ UNCHANGED << capturedAuthToken, isListening, cleanupVars, listeners, nResponses >>

ObserverNext ==
  \/ StartListening /\ UNCHANGED << runVars, parserVars, retryVars, seederVars >>
  \/ StopListening /\ UNCHANGED << runVars, parserVars, retryVars, seederVars >>
  \/ /\ \E o \in { Logger, Faulty } : AddObserverCall(o)
     /\ UNCHANGED << runVars, parserVars, retryVars, seederVars >>
  \/ /\ \E w \in Waits : WaitForApiCreationResponseCall(w)
     /\ UNCHANGED << runVars, parserVars, retryVars, seederVars >>
  \/ /\ \E w \in Waits : TimeoutFires(w)
     /\ UNCHANGED << runVars, parserVars, retryVars, seederVars >>
  \/ /\ \E tok \in Tokens : RequestArrives(tok)
     /\ UNCHANGED << runVars, parserVars, retryVars, seederVars >>
  \/ /\ \E resp \in Responses : ResponseArrives(resp)
     /\ UNCHANGED << runVars, parserVars, retryVars, seederVars >>
  \/ HandleResponseResumes /\ UNCHANGED << runVars, parserVars, retryVars, seederVars >>

ObserverSpecInit == Init /\ RunIdle /\ ParserIdle /\ ObserverInit /\ RetryIdle /\ SeederIdle

ObserverSpec == ObserverSpecInit /\ [][ObserverNext]_allVars

\* C22: a dispatched response reaches every observer registered when the
\* dispatch began, exactly once each, whatever the observers do.
C22_EveryObserverNotified ==
  \A o \in Range(registered) : Occurrences(notified, o) = 1


\* the exception half of C22 alone: a dispatch during which no observer left
\* the list reaches every registered observer once, the raising one included
NotifiedWhenNoneRemoved ==
  (\A o \in Range(registered) : o \in Range(observers)) =>
    \A o \in Range(registered) : Occurrences(notified, o) = 1

\* ======================================================================
\* ApiActions.retry: one invocation per item of a batch (batch delete and
\* batch upload start a retry() for every item and await them together)
\* ======================================================================
MaxRetriesBound == 3       \* largest maxRetries argument
MaxItems        == 2       \* items of one batch

Items      == 1..MaxItems
RetryCounts == 0..MaxRetriesBound          \* maxRetries arguments
BaseDelays == { 250, 1000 }                \* baseDelayMs arguments

RECURSIVE Pow2(_)
Pow2(n) == IF n = 0 THEN 1 ELSE 2 * Pow2(n - 1)

\* `baseDelayMs * Math.pow(2, attempt - 1)`
DelayConstant(baseDelayMs, attempt) == baseDelayMs

Delay(baseDelayMs, attempt) == baseDelayMs * Pow2(attempt - 1)

\* `lastError = error as Error` followed by `throw lastError`
ThrownFirst(lastError, error) == IF lastError = 0 THEN error ELSE lastError

Thrown(lastError, error) == error

\* `if (attempt === maxRetries)`
Exhausted(attempt, maxRetries) == attempt = maxRetries

\* the operation's k-th invocation returns Value(k) or raises Error(k);
\* 0 stands for undefined (no value, `let lastError` never assigned)
NoRetry ==
  [ pc |-> "idle", maxRetries |-> 0, baseDelayMs |-> 0, attempt |-> 0,
    lastError |-> 0, invoked |-> 0, failed |-> 0, waits |-> << >>,
    value |-> 0, error |-> 0 ]

RetryInit == retries = [ i \in Items |-> NoRetry ]

\* retry(operation, maxRetries, baseDelayMs) up to its first await: the
\* first invocation of the operation, or `throw lastError!` when the loop
\* does not run at all
Retry(i, maxRetries, baseDelayMs) ==
  /\ retries[i].pc = "idle"
  /\ \A j \in Items : j < i => retries[j].pc # "idle"
  /\ retries' = [ retries EXCEPT ![i] =
       IF 1 <= maxRetries
       THEN [ @ EXCEPT !.pc = "operation", !.maxRetries = maxRetries,
                       !.baseDelayMs = baseDelayMs, !.attempt = 1, !.invoked = 1 ]
       ELSE [ @ EXCEPT !.pc = "rejected", !.maxRetries = maxRetries,
                       !.baseDelayMs = baseDelayMs, !.attempt = 1 ] ]

\* the awaited operation() resolves: retry returns its result
OperationResolves(i) ==
  /\ retries[i].pc = "operation"
  /\ retries' = [ retries EXCEPT ![i] =
       [ @ EXCEPT !.pc = "resolved", !.value = retries[i].attempt ] ]

\* the awaited operation() rejects: the catch block
OperationRejects(i) ==
  LET r == retries[i] IN
  /\ r.pc = "operation"
  /\ retries' = [ retries EXCEPT ![i] =
       IF Exhausted(r.attempt, r.maxRetries)
       THEN [ @ EXCEPT !.pc = "rejected", !.failed = @ + 1,
                       !.lastError = Thrown(r.lastError, r.attempt),
                       !.error = Thrown(r.lastError, r.attempt) ]
       ELSE [ @ EXCEPT !.pc = "waitForTimeout", !.failed = @ + 1,
                       !.lastError = Thrown(r.lastError, r.attempt),
                       !.waits = Append(@, Delay(r.baseDelayMs, r.attempt)) ] ]

\* page.waitForTimeout(delay) resolves: the next iteration invokes the
\* operation again, or the loop ends and `throw lastError!` runs
WaitForTimeoutElapses(i) ==
  LET r == retries[i] IN
  /\ r.pc = "waitForTimeout"
  /\ retries' = [ retries EXCEPT ![i] =
       IF r.attempt + 1 <= r.maxRetries
       THEN [ @ EXCEPT !.pc = "operation", !.attempt = @ + 1, !.invoked = @ + 1 ]
       ELSE [ @ EXCEPT !.pc = "rejected", !.attempt = @ + 1, !.error = r.lastError ] ]

RetryNext ==
  \/ /\ \E i \in Items, maxRetries \in RetryCounts, baseDelayMs \in BaseDelays :
          Retry(i, maxRetries, baseDelayMs)
     /\ UNCHANGED << vars, runVars, parserVars, observerVars, seederVars >>
  \/ /\ \E i \in Items : OperationResolves(i)
     /\ UNCHANGED << vars, runVars, parserVars, observerVars, seederVars >>
  \/ /\ \E i \in Items : OperationRejects(i)
     /\ UNCHANGED << vars, runVars, parserVars, observerVars, seederVars >>
  \/ /\ \E i \in Items : WaitForTimeoutElapses(i)
     /\ UNCHANGED << vars, runVars, parserVars, observerVars, seederVars >>

RetrySpecInit ==
  Init /\ RunIdle /\ ParserIdle /\ ObserverIdle /\ SeederIdle /\ RetryInit

RetrySpec == RetrySpecInit /\ [][RetryNext]_allVars

\* every awaited promise settles: the operation is an HTTP call made with a
\* request timeout, and waitForTimeout is a timer
RetryFairness ==
  \A i \in Items :
    /\ WF_retryVars(OperationResolves(i) \/ OperationRejects(i))
    /\ WF_retryVars(WaitForTimeoutElapses(i))

RetryLiveSpec == RetrySpecInit /\ [][RetryNext]_allVars /\ RetryFairness

Running(i) == retries[i].pc \in { "operation", "waitForTimeout" }
Settled(i) == retries[i].pc \in { "resolved", "rejected" }

\* the safety half of C23
RetryBounded ==
  \A i \in Items :
    LET r == retries[i] IN
    /\ r.invoked <= r.maxRetries
    /\ r.pc = "resolved" =>
         r.value = r.invoked /\ r.failed = r.invoked - 1
    /\ (r.pc = "rejected" /\ r.maxRetries >= 1) =>
         r.invoked = r.maxRetries /\ r.failed = r.maxRetries /\ r.error = r.maxRetries

\* C23: retry() terminates after at most maxRetries invocations of the
\* operation; it returns the result of the first attempt that succeeds, and
\* rejects with the error of the last attempt when all maxRetries fail.
C23_RetryTerminates ==
  /\ []RetryBounded
  /\ \A i \in Items : Running(i) ~> Settled(i)

C23_Witness ==
  /\ retries[1].pc = "rejected" /\ retries[1].maxRetries = 3 /\ retries[1].error = 3
  /\ retries[2].pc = "resolved" /\ retries[2].maxRetries = 3 /\ retries[2].value = 2

\* C24: the wait after failed attempt k (k < maxRetries) is
\* baseDelayMs * 2^(k-1); no wait follows the final failed attempt or a
\* success.
C24_ExponentialBackoff ==
  \A i \in Items :
    LET r == retries[i] IN
    /\ \A k \in 1..Len(r.waits) : r.waits[k] = r.baseDelayMs * Pow2(k - 1)
    /\ r.pc = "waitForTimeout" => Len(r.waits) = r.failed /\ r.failed < r.maxRetries
    /\ r.pc = "operation" => Len(r.waits) = r.failed
    /\ r.pc = "resolved" => Len(r.waits) = r.failed
    /\ (r.pc = "rejected" /\ r.maxRetries >= 1) => Len(r.waits) = r.maxRetries - 1

C24_Witness ==
  /\ retries[1].pc = "rejected" /\ retries[1].waits = << 1000, 2000 >>
  /\ retries[2].pc = "resolved" /\ retries[2].waits = << 1000 >>

\* ------------------------------------------------------------------ C25
\* invocation c ran alone on the observer path and returned false
FailedObserverCleanup(c) ==
  pc[c] = "done" /\ ret[c] = "false" /\ path[c] = "observer" /\ alone[c]

\* a failed observer-path cleanup leaves the process-wide id list and the
\* completed flag as they were
KeptForRetry ==
  (Returns(1) /\ path[1] = "observer" /\ result[1] = "false" /\ pc[2] = "idle") =>
    /\ globalApiDefinitionIds' = globalApiDefinitionIds
    /\ cleanupCompleted' = FALSE

\* invocation 2 goes straight to the bulk delete of the process-wide list
LegacyDelete ==
  /\ path'[2] = "legacy"
  /\ pc'[2] = "post" /\ gets'[2] = << >> /\ sent'[2] = 1
  /\ request'[2] = BulkDelete(globalApiDefinitionIds,
                              globalProjectDocumentVersionId, globalAuthToken)

NextAfterFailure(h) ==
  /\ FailedObserverCleanup(1)
  /\ Starts(2) /\ helper'[2] = h
  /\ globalApiDefinitionIds # << >>
  /\ globalAuthToken # ""

\* C25: after an observer-path cleanup returned false, the ids
\* registered process-wide remain and the completed flag stays false, and the
\* next cleanup on any instance takes the legacy path: with a non-empty
\* process-wide token it posts those ids, without existence check, with the
\* process-wide projectDocumentVersionId.
C25_NextTakesLegacyPath ==
  [][ /\ KeptForRetry
      /\ \A h \in Helpers : NextAfterFailure(h) => LegacyDelete ]_vars

\* the same, restricted to a next cleanup on an instance whose own observer
\* list is empty when it starts
NextOnEmptyInstanceTakesLegacyPath ==
  [][ /\ KeptForRetry
      /\ \A h \in Helpers :
           (NextAfterFailure(h) /\ trackedApiDefinitions[h] = << >>) => LegacyDelete ]_vars

RetriedByLegacyPath ==
  /\ FailedObserverCleanup(1)
  /\ pc[2] = "post" /\ path[2] = "legacy" /\ helper[2] # helper[1]
  /\ Len(request[2][1].apiDefinitionList) = 2

\* ======================================================================
\* ApiDataSeeder: seeding calls, the creation interceptor, and cleanup()
\* ======================================================================
MaxCreated  == 2       \* definitions created on the server (seeded or intercepted)
MaxCleanups == 2       \* cleanup() calls

Categories == { 2, 3 }             \* seedForCategory2, seedForCategory3

\* id 0 stands for "none"; "" for an undefined project version id
NewSeeder ==
  [ createdApiDefinitions |-> << >>,   \* this.createdApiDefinitions
    server |-> {},                     \* definitions this seeder's page created on the server
    made |-> 0,                        \* how many the server has created so far
    capturedProjectVersionId |-> "",   \* globalThis.__capturedProjectVersionId
    configProjectVersionId |-> "",     \* ConfigManager value of PROJECT_VERSION_ID
    intercepting |-> FALSE,            \* setupApiCreationInterceptor() installed its route
    seedPc |-> "idle",                 \* position of the seeding call
    category |-> 0,                    \* which seeding method it is
    seedId |-> 0,                      \* id the running / latest seeding call created
    cleanupPc |-> "idle",              \* position of the cleanup() call
    sent |-> 0,                        \* bulk-delete requests of the running / latest cleanup()
    requested |-> << >>,               \* apiDefinitionList of its request
    cleanups |-> 0 ]

SeederInit == seeder = NewSeeder

SeedInFlight ==
  seeder.seedPc \in { "waitForAuthToken", "uploadSpecFile", "createApiDefinition",
                      "publishApiDefinitionExact" }
CleanupInFlight == seeder.cleanupPc \in { "post", "text" }

\* the id the server gives to its next definition
NextId == seeder.made + 1

\* `(globalThis).__capturedProjectVersionId || configManager.get('PROJECT_VERSION_ID')`
ProjectVersionId(captured, config) == IF captured # "" THEN captured ELSE config

\* the list after seedForCategory3's awaited publish rejected: the push sits
\* behind the publish call
CreatedAfterPublishFailed(created, id) == created

\* configManager.set('PROJECT_VERSION_ID', pv)
ConfigSet(pv) ==
  /\ seeder.configProjectVersionId = ""
  /\ ~SeedInFlight /\ ~CleanupInFlight
  /\ seeder' = [ seeder EXCEPT !.configProjectVersionId = pv ]

SetupApiCreationInterceptor ==
  /\ ~seeder.intercepting
  /\ ~SeedInFlight /\ ~CleanupInFlight
  /\ seeder' = [ seeder EXCEPT !.intercepting = TRUE ]

\* the route handler for a POST /api/v2/apidefinitions made by the page,
\* answered with a successful creation
InterceptedCreation(pv) ==
  /\ seeder.intercepting
  /\ ~SeedInFlight
  /\ NextId <= MaxCreated
  /\ seeder' = [ seeder EXCEPT !.server = @ \cup { NextId }, !.made = NextId,
                              !.createdApiDefinitions = Append(@, NextId),
                              !.capturedProjectVersionId = pv ]

\* seedForCategory2 / seedForCategory3 up to `await waitForAuthToken(15000)`
Seed(category) ==
  /\ ~SeedInFlight /\ ~CleanupInFlight
  /\ NextId <= MaxCreated
  /\ seeder' = [ seeder EXCEPT !.seedPc = "waitForAuthToken",
                              !.category = category, !.seedId = 0 ]

\* waitForAuthToken resolves with a token, or with null (then the call throws)
WaitForAuthTokenAnswer(token) ==
  /\ seeder.seedPc = "waitForAuthToken"
  /\ seeder' = [ seeder EXCEPT !.seedPc = IF token # "" THEN "uploadSpecFile" ELSE "threw" ]

\* uploadSpecFile resolves with the file URL or rejects
UploadSpecFileAnswer(outcome) ==
  /\ seeder.seedPc = "uploadSpecFile"
  /\ seeder' = [ seeder EXCEPT !.seedPc = IF outcome = "ok" THEN "createApiDefinition"
                                                           ELSE "threw" ]

\* createApiDefinition resolves (the server has created the definition) or
\* rejects; category 2 pushes the id and returns, category 3 goes on to publish
CreateApiDefinitionAnswer(outcome) ==
  /\ seeder.seedPc = "createApiDefinition"
  /\ seeder' =
       IF outcome # "ok" THEN [ seeder EXCEPT !.seedPc = "threw" ]
       ELSE IF seeder.category = 2
       THEN [ seeder EXCEPT !.server = @ \cup { NextId }, !.made = NextId, !.seedId = NextId,
                            !.createdApiDefinitions = Append(@, NextId),
                            !.seedPc = "returned" ]
       ELSE [ seeder EXCEPT !.server = @ \cup { NextId }, !.made = NextId, !.seedId = NextId,
                            !.seedPc = "publishApiDefinitionExact" ]

\* publishApiDefinitionExact resolves (push, return) or rejects (catch, rethrow)
PublishAnswer(outcome) ==
  /\ seeder.seedPc = "publishApiDefinitionExact"
  /\ seeder' =
       IF outcome = "ok"
       THEN [ seeder EXCEPT !.createdApiDefinitions = Append(@, seeder.seedId),
                            !.seedPc = "returned" ]
       ELSE [ seeder EXCEPT !.createdApiDefinitions =
                              CreatedAfterPublishFailed(@, seeder.seedId),
                            !.seedPc = "threw" ]

\* cleanup() up to its return or to the awaited bulk-delete POST
Cleanup ==
  LET projectVersionId == ProjectVersionId(seeder.capturedProjectVersionId,
                                           seeder.configProjectVersionId)
  IN
  /\ ~SeedInFlight /\ ~CleanupInFlight
  /\ seeder.cleanups < MaxCleanups
  /\ seeder' =
       IF Len(seeder.createdApiDefinitions) = 0
       THEN [ seeder EXCEPT !.cleanupPc = "returned", !.cleanups = @ + 1,
                            !.sent = 0, !.requested = << >> ]
       ELSE IF projectVersionId = ""
       THEN \* `return` inside the try block: the reset below it does not run
            [ seeder EXCEPT !.cleanupPc = "returned", !.cleanups = @ + 1,
                            !.sent = 0, !.requested = << >> ]
       ELSE [ seeder EXCEPT !.cleanupPc = "post", !.cleanups = @ + 1,
                            !.sent = 1, !.requested = seeder.createdApiDefinitions ]

\* the bulk-delete POST is answered ok, or raises: the list is reset; a
\* non-ok answer first awaits response.text()
CleanupPostAnswer(outcome) ==
  /\ seeder.cleanupPc = "post"
  /\ seeder' =
       IF outcome = "nonok"
       THEN [ seeder EXCEPT !.cleanupPc = "text" ]
       ELSE [ seeder EXCEPT !.cleanupPc = "returned", !.createdApiDefinitions = << >>,
                            !.server = IF outcome = "ok"
                                       THEN @ \ Range(seeder.requested) ELSE @ ]

\* response.text() settles (a rejection is caught): the list is reset
CleanupTextAnswer ==
  /\ seeder.cleanupPc = "text"
  /\ seeder' = [ seeder EXCEPT !.cleanupPc = "returned", !.createdApiDefinitions = << >> ]

SeederNext ==
  \/ /\ \E pv \in { "v1" } : ConfigSet(pv)
     /\ UNCHANGED << vars, runVars, parserVars, observerVars, retryVars >>
  \/ /\ SetupApiCreationInterceptor
     /\ UNCHANGED << vars, runVars, parserVars, observerVars, retryVars >>
  \/ /\ \E pv \in Pvs : InterceptedCreation(pv)
     /\ UNCHANGED << vars, runVars, parserVars, observerVars, retryVars >>
  \/ /\ \E category \in Categories : Seed(category)
     /\ UNCHANGED << vars, runVars, parserVars, observerVars, retryVars >>
  \/ /\ \E token \in Tokens \cup { "" } : WaitForAuthTokenAnswer(token)
     /\ UNCHANGED << vars, runVars, parserVars, observerVars, retryVars >>
  \/ /\ \E outcome \in { "ok", "raise" } : UploadSpecFileAnswer(outcome)
     /\ UNCHANGED << vars, runVars, parserVars, observerVars, retryVars >>
  \/ /\ \E outcome \in { "ok", "raise" } : CreateApiDefinitionAnswer(outcome)
     /\ UNCHANGED << vars, runVars, parserVars, observerVars, retryVars >>
  \/ /\ \E outcome \in { "ok", "raise" } : PublishAnswer(outcome)
     /\ UNCHANGED << vars, runVars, parserVars, observerVars, retryVars >>
  \/ /\ Cleanup
     /\ UNCHANGED << vars, runVars, parserVars, observerVars, retryVars >>
  \/ /\ \E outcome \in Outcomes : CleanupPostAnswer(outcome)
     /\ UNCHANGED << vars, runVars, parserVars, observerVars, retryVars >>
  \/ /\ CleanupTextAnswer
     /\ UNCHANGED << vars, runVars, parserVars, observerVars, retryVars >>

SeederSpecInit ==
  Init /\ RunIdle /\ ParserIdle /\ ObserverIdle /\ RetryIdle /\ SeederInit

SeederSpec == SeederSpecInit /\ [][SeederNext]_allVars

SeedSettles == SeedInFlight /\ seeder'.seedPc \in { "returned", "threw" }
CleanupReturns == seeder.cleanupPc # "returned" /\ seeder'.cleanupPc = "returned"

\* C26: a definition that a seeding call created on the server is in
\* createdApiDefinitions when that call returns or throws.
C26_CreatedIsTracked ==
  [][ (SeedSettles /\ seeder'.seedId # 0) =>
        seeder'.seedId \in Range(seeder'.createdApiDefinitions) ]_seederVars

\* the same for seedForCategory2 alone
Category2CreatedIsTracked ==
  [][ (SeedSettles /\ seeder'.seedId # 0 /\ seeder.category = 2) =>
        seeder'.seedId \in Range(seeder'.createdApiDefinitions) ]_seederVars

\* C28: cleanup() never throws, sends at most one bulk-delete request, and
\* leaves createdApiDefinitions empty when it returns.
C28_CleanupEmptiesList ==
  [][ /\ seeder'.cleanupPc # "threw"
      /\ CleanupReturns =>
           seeder'.createdApiDefinitions = << >> /\ seeder'.sent <= 1 ]_seederVars

\* the same for the calls that had a project version id to send
CleanupWithVersionIdEmptiesList ==
  [][ /\ seeder'.cleanupPc # "threw"
      /\ (CleanupReturns /\ (seeder.cleanupPc \in { "post", "text" }
                             \/ seeder.createdApiDefinitions = << >>)) =>
           seeder'.createdApiDefinitions = << >> /\ seeder'.sent <= 1 ]_seederVars

\* ------------------------------------------------------------------ C27
\* one handleResponse invocation runs notifyObservers in this step
Dispatches == inflight # << >> /\ inflight' # inflight

NonePending == \A w \in Waits : promise[w] # "pending"

\* a call resolves with an id only after registering it process-wide, and
\* the timeout resolves a pending call with null
ResolvesAsSpecified ==
  [][ \A w \in Waits :
        /\ (promise[w] = "pending" /\ promise'[w] \in Ids) =>
             (Dispatches /\ promise'[w] = inflight[1].resp.id
                         /\ promise'[w] \in Range(globalApiDefinitionIds'))
        /\ (timer[w] /\ promise[w] = "pending" /\ TimeoutFires(w)) => promise'[w] = "null"
        /\ promise[w] \notin { "none", "pending" } => promise'[w] = promise[w] ]_allVars

\* C27: waitForApiCreationResponse() settles once, with the ids of the first
\* successful creation response or with null at the timeout, and once every
\* call has settled an arriving response no longer changes the process-wide
\* tracking state.
C27_SettledWaitIsInert ==
  [][ (Dispatches /\ NonePending) =>
        UNCHANGED << globalApiDefinitionIds, globalProjectDocumentVersionId,
                     globalAuthToken >> ]_allVars

\* ------------------------------------------------------------------ C29
\* while the observer is not listening, no arriving response is taken up for
\* delivery and no request updates the captured token
DeafWhenStopped ==
  ~isListening[Observed] =>
    /\ inflight = << >> => inflight' = << >>
    /\ capturedAuthToken' = capturedAuthToken

\* no observer has received the arriving response more than once
DeliveredOnce == \A o \in AllObservers : delivered[o] <= 1

StoppedMeansDeaf == [][DeafWhenStopped]_allVars

\* C29: after stopListening() nothing arriving on the page reaches an
\* observer or the captured token until startListening() is called again,
\* and after any sequence of start/stop calls every arriving response
\* reaches each registered observer at most once.
C29_StopDetachesListeners ==
  [][ DeafWhenStopped /\ DeliveredOnce' ]_allVars

\* ------------------------------------------------------------------ C30
\* ids tracked for instance h: its observer list and the process-wide list
TrackedIds(h) ==
  Range(IdsOf(trackedApiDefinitions[h])) \cup Range(globalApiDefinitionIds)

Sends(c) == sent'[c] = sent[c] + 1

\* C30: every id of a bulk-delete request is tracked (observer list of the
\* sending instance or process-wide list) at the moment the request is sent:
\* it was registered earlier and no cleanup has removed it since.
C30_OnlyTrackedIdsDeleted ==
  [][ \A c \in Calls :
        Sends(c) => /\ RequestIds(c)' # {}
                    /\ RequestIds(c)' \subseteq TrackedIds(helper'[c]) ]_vars

\* a request is sent by the observer path after another instance's legacy
\* cleanup was answered in between
C30_Witness ==
  \E c, d \in Calls :
    /\ c # d /\ helper[c] # helper[d]
    /\ path[c] = "observer" /\ pc[c] = "post" /\ RequestIds(c) # {}
    /\ path[d] = "legacy" /\ pc[d] = "done" /\ sent[d] = 1

====
